---- MODULE Spec2Model ----
(***************************************************************************)
(* Model of the authoritative arena-shooter server: one Room                *)
(* (server/src/room.ts) driven by its tick, the bullet engine              *)
(* (server/src/world.ts) and the socket handlers (server/src/index.ts).    *)
(*                                                                         *)
(* Numbers.  Time is in integer milliseconds.  Positions, radii and        *)
(* displacements are in tenths of an arena unit (the code uses doubles);   *)
(* velocities are in tenths of a unit per second; unit direction vectors   *)
(* are in thousandths; speed multipliers are in hundredths.  Tick periods  *)
(* are multiples of 50 ms, for which the axis-aligned movement of the      *)
(* code is exact in these units.                                           *)
(***************************************************************************)
EXTENDS Integers, Sequences, FiniteSets, TLC

\* ------------------------------------------------------------------------
\* Program constants (room.ts, world.ts, protocol.ts)
\* ------------------------------------------------------------------------
TICK_MS == 50
SPEED == 240
PLAYER_RADIUS == 18
ECHO_HP == 1
ECHO_DELAY_MS == 900
ECHO_LIFETIME_MS == 3500
TIME_BUBBLE_RADIUS == 140
TIME_BUBBLE_LIFETIME_MS == 10000
PHASE_DASH_MS == 250
TIME_BUBBLE_MOVE_MULT == 55
TIME_BUBBLE_BULLET_MULT == 60
DASH_SPEED_MULT == 220
SHIELD_DURATION_MS == 5000
SHIELD_CHARGES == 2
NOVA_BULLET_COUNT == 18
NOVA_BULLET_SPEED == 420
NOVA_BULLET_TTL_MS == 900
NOVA_SPAWN_OFFSET == 10
NOVA_HIT_COOLDOWN_MS == 150
NOVA_GC_MS == 1000
STRIKE_MARK_MS == 1000
STRIKE_RADIUS == 120
STRIKE_DAMAGE == 2
STRIKE_TARGET_WINDOW_MS == 5000
PORTAL_RADIUS == 22
PORTAL_DURATION_MS == 10000
PORTAL_PENDING_MS == 5000
PORTAL_ENTITY_COOLDOWN_MS == 250
PORTAL_BULLET_COOLDOWN_MS == 60
PORTAL_BULLET_JUMPS == 2
BOUNCER_SPEED == 220
BOUNCER_TTL_MS == 12000
BOUNCER_RADIUS == 36
BOUNCER_DAMAGE == 1
BOUNCER_BOUNCES == 6
SLASH_SPEED == 480
SLASH_TTL_MS == 3000
SLICE_RADIUS == 48
SLASH_DAMAGE == 5
SLASH_REFLECTS == 20
BULLET_SPEED == 520
BULLET_TTL_MS == 1200
PICKUP_COUNT == 6
PICKUP_RADIUS == 12
PICKUP_PADDING == 40
PICKUP_RESPAWN_MS == 10000
RIFT_SNIPER_RESPAWN_MS == 45000
RIFT_SNIPER_MAX == 1
RESPAWN_MS == 1500
INPUT_HISTORY_MS == 5000
BOT_CHECK_MS == 1000
DEFAULT_DURATION_SEC == 300
MIN_DURATION_SEC == 60
MAX_DURATION_SEC == 900
ARENA_W == 1200
ARENA_H == 800
BULLET_RADIUS == 3
OUT_OF_BOUNDS_MARGIN == 12
BOUNCER_REHIT_MS == 120
SLASH_REFLECT_SPEED_MULT == 120
REFLECT_MIN_TTL_MS == 120

\* const FIRE_COOLDOWN_MS = 1000 / 6, kept exact: elapsed < 1000/6
FireCooldownActive(elapsedMs) == elapsedMs * 6 < 1000

\* units -> tenths of a unit
U(n) == n * 10

SPAWN_POINTS ==
    << [x |-> U(60), y |-> U(60)],
       [x |-> U(ARENA_W - 60), y |-> U(60)],
       [x |-> U(60), y |-> U(ARENA_H - 60)],
       [x |-> U(ARENA_W - 60), y |-> U(ARENA_H - 60)] >>

ABILITIES ==
    << "echo", "time_bubble", "phase_dash", "shield", "rift_sniper",
       "pulse_nova", "orbital_strike", "linked_portals",
       "annihilation_bouncer", "void_slice" >>

\* ------------------------------------------------------------------------
\* Arithmetic of the code on the model's integer units
\* ------------------------------------------------------------------------
Abs(n) == IF n < 0 THEN -n ELSE n
Min(a, b) == IF a < b THEN a ELSE b
Max(a, b) == IF a > b THEN a ELSE b
Sgn(n) == IF n < 0 THEN -1 ELSE IF n > 0 THEN 1 ELSE 0

\* const clamp = (value, min, max) => Math.max(min, Math.min(max, value))
clamp(value, lo, hi) == Max(lo, Min(hi, value))

\* division rounding toward zero (b > 0)
TDiv(a, b) == IF a >= 0 THEN a \div b ELSE -((-a) \div b)
\* the same for a divisor of either sign (b # 0)
SDiv(a, b) == IF b > 0 THEN TDiv(a, b) ELSE TDiv(-a, -b)

\* a * b / c rounded toward zero; a product beyond the 32-bit range of the
\* checker's integers is reported as a displacement far outside the arena
\* (every use clamps to the arena or removes what leaves it).
FarAway == U(100000)
MulDiv(a, b, c) ==
    IF a = 0 \/ b = 0 THEN 0
    ELSE IF Abs(b) > 2000000000 \div Abs(a) THEN Sgn(a) * Sgn(b) * FarAway
    ELSE LET q == TDiv(a * b, c)
         IN  IF q > FarAway THEN FarAway ELSE IF q < -FarAway THEN -FarAway ELSE q

RECURSIVE SqrtIter(_, _, _)
SqrtIter(n, lo, hi) ==
    IF lo >= hi THEN lo
    ELSE LET mid == (lo + hi + 1) \div 2
         IN  IF mid * mid <= n THEN SqrtIter(n, mid, hi) ELSE SqrtIter(n, lo, mid - 1)

\* Math.hypot on tenths (rounded down), exact on axis-aligned vectors
hypot(dx, dy) ==
    IF dy = 0 THEN Abs(dx)
    ELSE IF dx = 0 THEN Abs(dy)
    ELSE IF Abs(dx) > 30000 \/ Abs(dy) > 30000
    THEN 64 * SqrtIter(TDiv(dx, 64) * TDiv(dx, 64) + TDiv(dy, 64) * TDiv(dy, 64), 0, 46340)
    ELSE SqrtIter(dx * dx + dy * dy, 0, 46340)

\* const distanceSq = (ax, ay, bx, by)
distanceSq(ax, ay, bx, by) == (ax - bx) * (ax - bx) + (ay - by) * (ay - by)

\* const isInsideCircle = (x, y, cx, cy, r): dx*dx + dy*dy <= r*r
isInsideCircle(x, y, cx, cy, r) == distanceSq(x, y, cx, cy) <= r * r

\* the unit vector (dx, dy) / length, in thousandths
UnitVec(dx, dy) ==
    LET len == hypot(dx, dy)
    IN  IF len = 0 THEN [nx |-> 0, ny |-> 0]
        ELSE [nx |-> TDiv(dx * 1000, len), ny |-> TDiv(dy * 1000, len)]

\* ------------------------------------------------------------------------
\* JavaScript Map / array helpers
\* ------------------------------------------------------------------------
\* A Map whose iteration order matters is a sequence of records with an id
\* field, in insertion order; a Map that is only looked up is a function.
NoId == << "", 0 >>
Undefined == 0 - 1

RECURSIVE IndexFrom(_, _, _)
IndexFrom(seq, id, i) ==
    IF i > Len(seq) THEN 0
    ELSE IF seq[i].id = id THEN i ELSE IndexFrom(seq, id, i + 1)
IndexOf(seq, id) == IndexFrom(seq, id, 1)
Has(seq, id) == IndexOf(seq, id) # 0
Get(seq, id) == seq[IndexOf(seq, id)]
Ids(seq) == [i \in 1..Len(seq) |-> seq[i].id]
IdSet(seq) == {seq[i].id : i \in 1..Len(seq)}
\* Map.delete(id)
Delete(seq, id) == SelectSeq(seq, LAMBDA e: e.id # id)
\* Map.set(id, value): in place when present, appended otherwise
Set(seq, value) ==
    IF Has(seq, value.id)
    THEN [seq EXCEPT ![IndexOf(seq, value.id)] = value]
    ELSE Append(seq, value)

MapGet(m, k, default) == IF k \in DOMAIN m THEN m[k] ELSE default
MapSet(m, k, v) == [x \in DOMAIN m \cup {k} |-> IF x = k THEN v ELSE m[x]]
MapDelete(m, k) == [x \in DOMAIN m \ {k} |-> m[x]]
EmptyMap == [x \in {} |-> 0]

\* ------------------------------------------------------------------------
\* State
\* ------------------------------------------------------------------------
VARIABLES
    room,     \* the Room object: its fields; `events`, the events of the
              \* snapshot its last tick broadcast; `timers`, the setTimeout
              \* callbacks it has pending (respawns and pickup respawns)
    clock,    \* Date.now()
    last,     \* the operation that produced this state, with its observations
    used      \* history: every (player, sequence number) that
              \* Room.canUseItem has recorded in lastUseItemSeq

vars == << room, clock, last, used >>

\* PlayerState (protocol.ts); name and r (always PLAYER_RADIUS) are left out
NewPlayer(id, spawn, maxHp, isBot) ==
    [id |-> id, x |-> spawn.x, y |-> spawn.y, hp |-> maxHp, maxHp |-> maxHp,
     alive |-> TRUE, kills |-> 0, deaths |-> 0, isEcho |-> FALSE,
     ownerId |-> NoId, isBot |-> isBot, heldItem |-> "none", shieldHp |-> 0]

HumanId(n) == << "h", n >>
BotId(n) == << "bot", n >>
EchoId(n) == << "e", n >>

\* Room constructor, before spawnInitialPickups
NewRoom(maxPlayers, fillWithBots, botCount, botDifficulty, maxHp, hostId, now) ==
    [maxPlayers |-> maxPlayers, fillWithBots |-> fillWithBots,
     botCount |-> botCount, botDifficulty |-> botDifficulty, maxHp |-> maxHp,
     match |-> [phase |-> "lobby", hostId |-> hostId, startedAtMs |-> Undefined,
                endsAtMs |-> Undefined, durationSec |-> DEFAULT_DURATION_SEC],
     players |-> << >>, latestInputs |-> EmptyMap, inputBuffer |-> EmptyMap,
     bullets |-> << >>, lastShotAtMs |-> EmptyMap, lastUseItemSeq |-> EmptyMap,
     dashUntilMs |-> EmptyMap, shieldUntilMs |-> EmptyMap,
     novaHitCooldown |-> EmptyMap, botIds |-> << >>, botAi |-> EmptyMap,
     echoes |-> << >>, pickups |-> << >>, zones |-> << >>, strikes |-> << >>,
     pendingStrikes |-> EmptyMap, pendingEvents |-> << >>, portals |-> << >>,
     pendingPortals |-> EmptyMap, portalCooldownUntilMs |-> EmptyMap,
     ticking |-> TRUE, lastTickMs |-> now, bulletSeq |-> 0, echoSeq |-> 0,
     pickupSeq |-> 0, zoneSeq |-> 0, novaSeq |-> 0, strikeSeq |-> 0,
     botSeq |-> 0, lastBotCheckMs |-> 0, portalSeq |-> 0,
     events |-> << >>, timers |-> << >>]

\* ------------------------------------------------------------------------
\* Roster
\* ------------------------------------------------------------------------
\* Room.addPlayer; spawn is randomSpawn()
addPlayer(r, id, spawn) ==
    LET r1 == [r EXCEPT !.players = Set(@, NewPlayer(id, spawn, r.maxHp, FALSE))]
    IN  IF r1.match.hostId = NoId THEN [r1 EXCEPT !.match.hostId = id] ELSE r1

\* Room.spawnBot
spawnBot(r, spawn) ==
    LET botId == BotId(r.botSeq)
    IN  [r EXCEPT !.botSeq = @ + 1,
                  !.players = Set(@, NewPlayer(botId, spawn, r.maxHp, TRUE)),
                  !.botIds = Append(@, botId),
                  !.botAi = MapSet(@, botId,
                               [nextThinkAtMs |-> 0, nextStrafeFlipAtMs |-> 0,
                                strafeDir |-> 1, targetId |-> NoId,
                                aim |-> [x |-> spawn.x, y |-> spawn.y]])]

\* Room.clearPortalCooldowns: keys are `${entityId}:${portalId}`
clearPortalCooldowns(r, entityId) ==
    [r EXCEPT !.portalCooldownUntilMs =
        [k \in {k \in DOMAIN @ : k[1] # entityId} |-> @[k]]]

\* Room.assignNewHost
assignNewHost(r) ==
    LET candidates == SelectSeq(r.players, LAMBDA p: ~p.isEcho)
    IN  IF Len(candidates) = 0 THEN [r EXCEPT !.match.hostId = NoId]
        ELSE [r EXCEPT !.match.hostId = candidates[1].id]

\* (a variant that leaves the echoes of the player in the room)
removePlayerKeepsEchoes(r, playerId) ==
    LET r1 == [r EXCEPT
                 !.players = Delete(@, playerId),
                 !.latestInputs = MapDelete(@, playerId),
                 !.inputBuffer = MapDelete(@, playerId),
                 !.lastShotAtMs = MapDelete(@, playerId),
                 !.lastUseItemSeq = MapDelete(@, playerId),
                 !.dashUntilMs = MapDelete(@, playerId),
                 !.shieldUntilMs = MapDelete(@, playerId),
                 !.botAi = MapDelete(@, playerId),
                 !.pendingStrikes = MapDelete(@, playerId),
                 !.strikes = SelectSeq(@, LAMBDA s: s.byId # playerId),
                 !.pendingPortals = MapDelete(@, playerId),
                 !.portals = SelectSeq(@, LAMBDA p: p.ownerId # playerId)]
        r2 == clearPortalCooldowns(r1, playerId)
        r3 == IF r2.match.hostId = playerId THEN assignNewHost(r2) ELSE r2
    IN  [r3 EXCEPT !.bullets = SelectSeq(@, LAMBDA b: b.ownerRootId # playerId)]
\* Room.removePlayer
removePlayer(r, playerId) ==
    LET r1 == [r EXCEPT
                 !.players = Delete(@, playerId),
                 !.latestInputs = MapDelete(@, playerId),
                 !.inputBuffer = MapDelete(@, playerId),
                 !.lastShotAtMs = MapDelete(@, playerId),
                 !.lastUseItemSeq = MapDelete(@, playerId),
                 !.dashUntilMs = MapDelete(@, playerId),
                 !.shieldUntilMs = MapDelete(@, playerId),
                 !.botAi = MapDelete(@, playerId),
                 !.pendingStrikes = MapDelete(@, playerId),
                 !.strikes = SelectSeq(@, LAMBDA s: s.byId # playerId),
                 !.pendingPortals = MapDelete(@, playerId),
                 !.portals = SelectSeq(@, LAMBDA p: p.ownerId # playerId)]
        r2 == clearPortalCooldowns(r1, playerId)
        r3 == IF r2.match.hostId = playerId THEN assignNewHost(r2) ELSE r2
        gone == {r3.echoes[i].id : i \in {j \in 1..Len(r3.echoes) :
                                            r3.echoes[j].ownerId = playerId}}
    IN  [r3 EXCEPT
           !.echoes = SelectSeq(@, LAMBDA e: e.ownerId # playerId),
           !.players = SelectSeq(@, LAMBDA p: p.id \notin gone),
           !.lastShotAtMs = [k \in DOMAIN @ \ gone |-> @[k]],
           !.bullets = SelectSeq(@, LAMBDA b: b.ownerRootId # playerId)]

hasPlayer(r, playerId) == Has(r.players, playerId)
getPlayerCount(r) == Len(SelectSeq(r.players, LAMBDA p: ~p.isEcho))
getHumanCount(r) == Len(SelectSeq(r.players, LAMBDA p: ~p.isEcho /\ ~p.isBot))
getBotCount(r) == Len(r.botIds)
\* (a variant that counts the bots as well)
isEmptyOfPlayers(r) == getPlayerCount(r) = 0
\* Room.isEmpty
isEmpty(r) == getHumanCount(r) = 0
\* (a variant that lets one more in)
isFullBeyond(r) == getPlayerCount(r) > r.maxPlayers
\* Room.isFull
isFull(r) == getPlayerCount(r) >= r.maxPlayers

\* Room.removeBotsForSpace
RECURSIVE removeBotsForSpace(_, _)
removeBotsForSpace(r, needed) ==
    IF needed <= 0 \/ Len(r.botIds) = 0 THEN r
    ELSE LET botId == Head(r.botIds)
         IN  removeBotsForSpace(
                [r EXCEPT !.botIds = Tail(@),
                          !.players = Delete(@, botId),
                          !.latestInputs = MapDelete(@, botId),
                          !.inputBuffer = MapDelete(@, botId),
                          !.lastShotAtMs = MapDelete(@, botId),
                          !.lastUseItemSeq = MapDelete(@, botId),
                          !.dashUntilMs = MapDelete(@, botId),
                          !.shieldUntilMs = MapDelete(@, botId),
                          !.botAi = MapDelete(@, botId)],
                needed - 1)

\* Room.clearBots
clearBots(r) == removeBotsForSpace(r, Len(r.botIds))

\* the number of bots Room.ensureBots wants
desiredBots(r) == Min(r.botCount, Max(0, r.maxPlayers - getHumanCount(r)))

\* how many randomSpawn() draws ensureBots makes
botsToSpawn(r) ==
    IF ~r.fillWithBots \/ getHumanCount(r) = 0 THEN 0
    ELSE Max(0, desiredBots(r) - getBotCount(r))

RECURSIVE spawnBots(_, _, _)
spawnBots(r, spawns, i) ==
    IF i > Len(spawns) THEN r
    ELSE spawnBots(spawnBot(r, SPAWN_POINTS[spawns[i]]), spawns, i + 1)

\* Room.ensureBots; spawns are the randomSpawn() draws of the bots it adds
ensureBots(r, spawns) ==
    IF ~r.fillWithBots THEN r
    ELSE IF getHumanCount(r) = 0 THEN clearBots(r)
    ELSE LET delta == desiredBots(r) - getBotCount(r)
         IN  IF delta > 0 THEN spawnBots(r, SubSeq(spawns, 1, delta), 1)
             ELSE IF delta < 0 THEN removeBotsForSpace(r, -delta)
             ELSE r

\* (a variant that keeps the first input until a later one replaces none)
handleInputOnce(r, playerId, input) ==
    IF ~Has(r.players, playerId) \/ playerId \in DOMAIN r.latestInputs THEN r
    ELSE [r EXCEPT !.latestInputs = MapSet(@, playerId, input)]
\* Room.handleInput
handleInput(r, playerId, input) ==
    IF ~Has(r.players, playerId) THEN r
    ELSE [r EXCEPT !.latestInputs = MapSet(@, playerId, input)]

\* ------------------------------------------------------------------------
\* Movement, shooting, input history
\* ------------------------------------------------------------------------
PlayerOf(r, id) == Get(r.players, id)
SetPlayer(r, p) == [r EXCEPT !.players = Set(@, p)]
PushEvent(r, e) == [r EXCEPT !.events = Append(@, e)]

\* Room.bufferInput
bufferInput(r, playerId, input, nowMs) ==
    LET history == Append(MapGet(r.inputBuffer, playerId, << >>),
                          [tMs |-> nowMs, keys |-> input.keys, aim |-> input.aim,
                           shoot |-> input.shoot])
        cutoff == nowMs - INPUT_HISTORY_MS
        \* entries are pushed in time order: dropping from the head while
        \* history[0].tMs < cutoff keeps exactly the entries at or after it
        kept == SelectSeq(history, LAMBDA h: h.tMs >= cutoff)
    IN  [r EXCEPT !.inputBuffer = MapSet(@, playerId, kept)]

\* Room.findBufferedInput: the index of the latest entry at or before
\* targetMs, 0 for null
RECURSIVE findBufferedFrom(_, _, _)
findBufferedFrom(history, targetMs, i) ==
    IF i < 1 THEN 0
    ELSE IF history[i].tMs <= targetMs THEN i
    ELSE findBufferedFrom(history, targetMs, i - 1)
\* (a variant that returns the oldest entry at or before targetMs)
findOldestInput(r, ownerId, targetMs) ==
    LET history == MapGet(r.inputBuffer, ownerId, << >>)
    IN  IF history # << >> /\ history[1].tMs <= targetMs THEN 1 ELSE 0
findBufferedInput(r, ownerId, targetMs) ==
    LET history == MapGet(r.inputBuffer, ownerId, << >>)
    IN  findBufferedFrom(history, targetMs, Len(history))

\* is (x, y) inside some time-bubble zone
InZone(r, x, y) ==
    \E i \in 1..Len(r.zones) :
        /\ r.zones[i].kind = "time_bubble"
        /\ distanceSq(x, y, r.zones[i].x, r.zones[i].y) <= r.zones[i].r * r.zones[i].r

\* Room.getTimeBubbleMoveMultAt
getTimeBubbleMoveMultAt(r, x, y) == IF InZone(r, x, y) THEN TIME_BUBBLE_MOVE_MULT ELSE 100

\* a variant that leaves out the rim of the zones
getBulletMultiplierInside(r, x, y) ==
    IF \E i \in 1..Len(r.zones) :
          /\ r.zones[i].kind = "time_bubble"
          /\ distanceSq(x, y, r.zones[i].x, r.zones[i].y) < r.zones[i].r * r.zones[i].r
    THEN TIME_BUBBLE_BULLET_MULT ELSE 100
\* Room.getBulletMultiplierAt
getBulletMultiplierAt(r, x, y) == IF InZone(r, x, y) THEN TIME_BUBBLE_BULLET_MULT ELSE 100

\* Room.isDashing
isDashing(r, playerId, nowMs) == nowMs < MapGet(r.dashUntilMs, playerId, 0)

\* Room.getMoveMultiplier
getMoveMultiplier(r, playerId, player, nowMs, isEcho) ==
    LET zoneMult == getTimeBubbleMoveMultAt(r, player.x, player.y)
    IN  IF isEcho THEN zoneMult
        ELSE IF isDashing(r, playerId, nowMs) THEN (zoneMult * DASH_SPEED_MULT) \div 100
        ELSE zoneMult

\* Room.applyMovement; speedMultiplier in hundredths
applyMovement(player, keys, dtMs, speedMultiplier) ==
    LET dx == (IF keys.right THEN 1 ELSE 0) - (IF keys.left THEN 1 ELSE 0)
        dy == (IF keys.down THEN 1 ELSE 0) - (IF keys.up THEN 1 ELSE 0)
        n == UnitVec(dx, dy)
        n1 == IF dx # 0 /\ dy # 0 THEN [nx |-> dx * 707, ny |-> dy * 707] ELSE n
        step == MulDiv(SPEED * dtMs, speedMultiplier, 10000)
    IN  IF dx = 0 /\ dy = 0 THEN player
        ELSE [player EXCEPT
                !.x = clamp(@ + MulDiv(n1.nx, step, 1000),
                            U(PLAYER_RADIUS), U(ARENA_W - PLAYER_RADIUS)),
                !.y = clamp(@ + MulDiv(n1.ny, step, 1000),
                            U(PLAYER_RADIUS), U(ARENA_H - PLAYER_RADIUS))]

\* BulletState (protocol.ts) with the optional fields world.ts reads
NewBullet(id, ownerId, ownerRootId, x, y, vx, vy, ttlMs) ==
    [id |-> id, ownerId |-> ownerId, ownerRootId |-> ownerRootId,
     x |-> x, y |-> y, vx |-> vx, vy |-> vy, ttlMs |-> ttlMs,
     bouncesLeft |-> Undefined, damage |-> Undefined, radius |-> Undefined,
     r |-> Undefined, isSlash |-> FALSE, reflectsLeft |-> Undefined,
     burstId |-> NoId, portalJumpsLeft |-> Undefined,
     bulletPortalCooldownUntilMs |-> Undefined, portalCooldownUntilMs |-> Undefined,
     lastHitTargetId |-> NoId, lastHitAtMs |-> Undefined]

\* bullet.r ?? bullet.radius ?? BULLET_RADIUS, in tenths
BulletRadius(b) ==
    IF b.r # Undefined THEN b.r
    ELSE IF b.radius # Undefined THEN b.radius ELSE U(BULLET_RADIUS)

\* velocity (tenths per second) of speed units per second along n
Velocity(n, speed) == [vx |-> TDiv(n.nx * speed, 100), vy |-> TDiv(n.ny * speed, 100)]
\* the point at offset units from (x, y) along n
Along(x, y, n, offset) ==
    [x |-> x + TDiv(n.nx * offset, 100), y |-> y + TDiv(n.ny * offset, 100)]

\* Room.tryShoot
tryShoot(r, shooterId, aim, nowMs, ownerRootId) ==
    LET player == PlayerOf(r, shooterId)
        lastShot == MapGet(r.lastShotAtMs, shooterId, 0)
        dx == aim.x - player.x
        dy == aim.y - player.y
        n == UnitVec(dx, dy)
        at == Along(player.x, player.y, n, PLAYER_RADIUS + 6)
        v == Velocity(n, BULLET_SPEED)
        bullet == [NewBullet(<< "b", r.bulletSeq >>, shooterId, ownerRootId,
                             at.x, at.y, v.vx, v.vy, BULLET_TTL_MS)
                     EXCEPT !.portalJumpsLeft = PORTAL_BULLET_JUMPS,
                            !.bulletPortalCooldownUntilMs = 0]
    IN  IF FireCooldownActive(nowMs - lastShot) THEN r
        ELSE IF hypot(dx, dy) = 0 THEN r
        ELSE [r EXCEPT !.bulletSeq = @ + 1,
                       !.bullets = Append(@, bullet),
                       !.lastShotAtMs = MapSet(@, shooterId, nowMs)]

\* (a variant that answers yes to every sequence number)
canUseItemAlways(r, playerId, seq) == TRUE
\* Room.canUseItem: the answer, and the room with lastUseItemSeq recorded
canUseItemAnswer(r, playerId, seq) ==
    ~(playerId \in DOMAIN r.lastUseItemSeq /\ r.lastUseItemSeq[playerId] = seq)
canUseItem(r, playerId, seq) ==
    IF canUseItemAnswer(r, playerId, seq)
    THEN [r EXCEPT !.lastUseItemSeq = MapSet(@, playerId, seq)]
    ELSE r

\* ------------------------------------------------------------------------
\* Death, shields
\* ------------------------------------------------------------------------
\* Room.scheduleRespawn: setTimeout(..., 1500)
scheduleRespawn(r, playerId, nowMs) ==
    [r EXCEPT !.timers = Append(@, [kind |-> "respawn", id |-> playerId,
                                     type |-> "none", dueMs |-> nowMs + RESPAWN_MS])]

\* Room.handleDeath
handleDeath(r, playerId, nowMs) ==
    IF ~Has(r.players, playerId) THEN r
    ELSE IF PlayerOf(r, playerId).isEcho
    THEN [r EXCEPT !.echoes = Delete(@, playerId),
                   !.players = Delete(@, playerId),
                   !.lastShotAtMs = MapDelete(@, playerId)]
    ELSE LET r1 == [SetPlayer(r, [PlayerOf(r, playerId) EXCEPT !.shieldHp = 0])
                      EXCEPT !.shieldUntilMs = MapDelete(@, playerId)]
         IN  IF r1.match.phase = "playing" THEN scheduleRespawn(r1, playerId, nowMs)
             ELSE r1

\* Room.isShieldActive
isShieldActive(r, playerId, nowMs) ==
    /\ Has(r.players, playerId)
    /\ ~PlayerOf(r, playerId).isEcho
    /\ PlayerOf(r, playerId).shieldHp > 0
    /\ nowMs < MapGet(r.shieldUntilMs, playerId, 0)

\* Room.breakShield
breakShield(r, playerId) ==
    IF ~Has(r.players, playerId) \/ PlayerOf(r, playerId).isEcho THEN r
    ELSE PushEvent([SetPlayer(r, [PlayerOf(r, playerId) EXCEPT !.shieldHp = 0])
                      EXCEPT !.shieldUntilMs = MapDelete(@, playerId)],
                   [type |-> "shield_break", id |-> playerId])

\* Room.handleShieldHit: whether the shield took the hit (its Date.now() is
\* the tick's)
shieldTakesHit(r, playerId, nowMs) == isShieldActive(r, playerId, nowMs)
handleShieldHit(r, playerId, nowMs) ==
    IF ~shieldTakesHit(r, playerId, nowMs) THEN r
    ELSE LET nextHp == Max(0, PlayerOf(r, playerId).shieldHp - 1)
             r1 == PushEvent(SetPlayer(r, [PlayerOf(r, playerId) EXCEPT !.shieldHp = nextHp]),
                             [type |-> "shield_hit", id |-> playerId, hpLeft |-> nextHp])
         IN  IF nextHp = 0 THEN breakShield(r1, playerId) ELSE r1

\* Room.killEntity
\* a variant that does not credit the kill
killEntityUncredited(r, targetId, byRootId, nowMs) ==
    IF ~PlayerOf(r, targetId).alive THEN r
    ELSE LET r1 == SetPlayer(r, [PlayerOf(r, targetId) EXCEPT !.alive = FALSE,
                                                            !.deaths = @ + 1])
             r3 == PushEvent(r1, [type |-> "death", id |-> targetId, byRootId |-> byRootId])
         IN  handleDeath(r3, targetId, nowMs)
killEntity(r, targetId, byRootId, nowMs) ==
    IF ~PlayerOf(r, targetId).alive THEN r
    ELSE LET r1 == SetPlayer(r, [PlayerOf(r, targetId) EXCEPT !.alive = FALSE,
                                                            !.deaths = @ + 1])
             r2 == IF Has(r1.players, byRootId)
                   THEN SetPlayer(r1, [PlayerOf(r1, byRootId) EXCEPT !.kills = @ + 1])
                   ELSE r1
             r3 == PushEvent(r2, [type |-> "death", id |-> targetId, byRootId |-> byRootId])
         IN  handleDeath(r3, targetId, nowMs)

\* ------------------------------------------------------------------------
\* Abilities
\* ------------------------------------------------------------------------
\* Room.trySpawnEcho
trySpawnEcho(r, playerId, nowMs) ==
    LET player == PlayerOf(r, playerId)
        echoId == EchoId(r.echoSeq)
        echo == [NewPlayer(echoId, [x |-> player.x + U(8), y |-> player.y + U(8)],
                           ECHO_HP, FALSE)
                   EXCEPT !.isEcho = TRUE, !.ownerId = playerId]
    IN  IF ~player.alive THEN r
        ELSE PushEvent(
               [r EXCEPT !.echoSeq = @ + 1,
                         !.players = Set(@, echo),
                         !.echoes = Set(@, [id |-> echoId, ownerId |-> playerId,
                                            expiresAtMs |-> nowMs + ECHO_LIFETIME_MS]),
                         !.lastShotAtMs = MapSet(@, echoId, 0)],
               [type |-> "spawn_echo", ownerId |-> playerId, echoId |-> echoId])

\* Room.spawnTimeBubble
spawnTimeBubble(r, playerId, nowMs) ==
    LET player == PlayerOf(r, playerId)
    IN  [r EXCEPT !.zoneSeq = @ + 1,
                  !.zones = Set(@, [id |-> << "z", r.zoneSeq >>, kind |-> "time_bubble",
                                    x |-> player.x, y |-> player.y,
                                    r |-> U(TIME_BUBBLE_RADIUS),
                                    expiresAtMs |-> nowMs + TIME_BUBBLE_LIFETIME_MS])]

\* Room.activateShield
activateShield(r, playerId, nowMs) ==
    IF PlayerOf(r, playerId).isEcho THEN r
    ELSE [SetPlayer(r, [PlayerOf(r, playerId) EXCEPT !.shieldHp = SHIELD_CHARGES])
            EXCEPT !.shieldUntilMs = MapSet(@, playerId, nowMs + SHIELD_DURATION_MS)]

\* Room.rayToArenaEdge: the smallest positive t among the four wall
\* crossings, then (x + nx t, y + ny t)
rayToArenaEdge(x, y, n) ==
    LET tVals == (IF n.nx # 0
                  THEN {SDiv((0 - x) * 1000, n.nx), SDiv((U(ARENA_W) - x) * 1000, n.nx)}
                  ELSE {}) \cup
                 (IF n.ny # 0
                  THEN {SDiv((0 - y) * 1000, n.ny), SDiv((U(ARENA_H) - y) * 1000, n.ny)}
                  ELSE {})
        positives == {t \in tVals : t > 0}
        t == IF positives = {} THEN 0
             ELSE CHOOSE m \in positives : \A o \in positives : m <= o
    IN  [x |-> x + MulDiv(n.nx, t, 1000), y |-> y + MulDiv(n.ny, t, 1000)]

\* Room.segmentIntersectsCircle: the point of [a, b] closest to c is within r
segmentIntersectsCircle(ax, ay, bx, by, cx, cy, rad) ==
    LET abx == bx - ax
        aby == by - ay
        px == IF aby = 0 THEN clamp(cx, Min(ax, bx), Max(ax, bx))
              ELSE IF abx = 0 THEN ax
              ELSE LET den == Max(1, (abx * abx + aby * aby) \div 1000)
                       t == clamp(TDiv((cx - ax) * abx + (cy - ay) * aby, den), 0, 1000)
                   IN  ax + TDiv(abx * t, 1000)
        py == IF aby = 0 THEN ay
              ELSE IF abx = 0 THEN clamp(cy, Min(ay, by), Max(ay, by))
              ELSE LET den == Max(1, (abx * abx + aby * aby) \div 1000)
                       t == clamp(TDiv((cx - ax) * abx + (cy - ay) * aby, den), 0, 1000)
                   IN  ay + TDiv(aby * t, 1000)
    IN  distanceSq(cx, cy, px, py) <= rad * rad

\* the loop of Room.fireRiftSniper over this.players
RECURSIVE riftSniperTargets(_, _, _, _, _, _)
riftSniperTargets(r, ids, i, shooterId, end, nowMs) ==
    IF i > Len(ids) THEN r
    ELSE IF ~Has(r.players, ids[i]) THEN riftSniperTargets(r, ids, i + 1, shooterId, end, nowMs)
    ELSE LET target == PlayerOf(r, ids[i])
             shooter == PlayerOf(r, shooterId)
             skip == \/ ~target.alive
                     \/ target.id = shooterId
                     \/ (target.isEcho /\ target.ownerId = shooterId)
                     \/ ~segmentIntersectsCircle(shooter.x, shooter.y, end.x, end.y,
                                                 target.x, target.y, U(PLAYER_RADIUS))
             r1 == IF skip THEN r
                   ELSE IF ~target.isEcho /\ isShieldActive(r, target.id, nowMs)
                   THEN breakShield(r, target.id)
                   ELSE killEntity(r, target.id, shooterId, nowMs)
         IN  riftSniperTargets(r1, ids, i + 1, shooterId, end, nowMs)

\* Room.fireRiftSniper: whether it fires, and the room after it
riftSniperFires(r, playerId, input) ==
    LET player == PlayerOf(r, playerId)
    IN  ~player.isEcho /\ hypot(input.aim.x - player.x, input.aim.y - player.y) # 0
fireRiftSniper(r, playerId, input, nowMs) ==
    LET player == PlayerOf(r, playerId)
        n == UnitVec(input.aim.x - player.x, input.aim.y - player.y)
        end == rayToArenaEdge(player.x, player.y, n)
        r1 == PushEvent(r, [type |-> "beam_fire", byId |-> playerId,
                            from |-> [x |-> player.x, y |-> player.y], to |-> end])
    IN  IF ~riftSniperFires(r, playerId, input) THEN r
        ELSE riftSniperTargets(r1, Ids(r1.players), 1, playerId, end, nowMs)

\* cos and sin of i * 2 pi / NOVA_BULLET_COUNT, in thousandths
NovaDir(i) ==
    LET cos == << 1000, 940, 766, 500, 174, -174, -500, -766, -940,
                  -1000, -940, -766, -500, -174, 174, 500, 766, 940 >>
        sin == << 0, 342, 643, 866, 985, 985, 866, 643, 342,
                  0, -342, -643, -866, -985, -985, -866, -643, -342 >>
    IN  [nx |-> cos[i + 1], ny |-> sin[i + 1]]

RECURSIVE novaBullets(_, _, _, _)
novaBullets(r, playerId, burstId, i) ==
    IF i >= NOVA_BULLET_COUNT THEN r
    ELSE LET player == PlayerOf(r, playerId)
             n == NovaDir(i)
             at == Along(player.x, player.y, n, PLAYER_RADIUS + NOVA_SPAWN_OFFSET)
             v == Velocity(n, NOVA_BULLET_SPEED)
             bullet == [NewBullet(<< "b", r.bulletSeq >>, playerId, playerId,
                                  at.x, at.y, v.vx, v.vy, NOVA_BULLET_TTL_MS)
                          EXCEPT !.burstId = burstId,
                                 !.portalJumpsLeft = PORTAL_BULLET_JUMPS,
                                 !.bulletPortalCooldownUntilMs = 0]
         IN  novaBullets([r EXCEPT !.bulletSeq = @ + 1, !.bullets = Append(@, bullet)],
                         playerId, burstId, i + 1)

\* Room.firePulseNova
firePulseNova(r, playerId, nowMs) ==
    IF PlayerOf(r, playerId).isEcho THEN r
    ELSE PushEvent(novaBullets([r EXCEPT !.novaSeq = @ + 1], playerId,
                               << "n", r.novaSeq >>, 0),
                   [type |-> "nova_fire", byId |-> playerId])

\* Room.fireAnnihilationBouncer: whether it fires, and the room after it
bouncerFires(r, playerId, input) ==
    LET player == PlayerOf(r, playerId)
    IN  ~player.isEcho /\ hypot(input.aim.x - player.x, input.aim.y - player.y) # 0
fireAnnihilationBouncer(r, playerId, input) ==
    LET player == PlayerOf(r, playerId)
        n == UnitVec(input.aim.x - player.x, input.aim.y - player.y)
        at == Along(player.x, player.y, n, PLAYER_RADIUS + BOUNCER_RADIUS + 4)
        v == Velocity(n, BOUNCER_SPEED)
        bullet == [NewBullet(<< "b", r.bulletSeq >>, playerId, playerId,
                             at.x, at.y, v.vx, v.vy, BOUNCER_TTL_MS)
                     EXCEPT !.bouncesLeft = BOUNCER_BOUNCES,
                            !.damage = BOUNCER_DAMAGE,
                            !.radius = U(BOUNCER_RADIUS)]
    IN  IF ~bouncerFires(r, playerId, input) THEN r
        ELSE [r EXCEPT !.bulletSeq = @ + 1, !.bullets = Append(@, bullet)]

\* Room.fireVoidSlice: whether it fires, and the room after it
voidSliceFires(r, playerId, input) ==
    LET player == PlayerOf(r, playerId)
    IN  ~player.isEcho /\ hypot(input.aim.x - player.x, input.aim.y - player.y) # 0
fireVoidSlice(r, playerId, input) ==
    LET player == PlayerOf(r, playerId)
        n == UnitVec(input.aim.x - player.x, input.aim.y - player.y)
        at == Along(player.x, player.y, n, PLAYER_RADIUS + 8)
        v == Velocity(n, SLASH_SPEED)
        bullet == [NewBullet(<< "s", r.bulletSeq >>, playerId, playerId,
                             at.x, at.y, v.vx, v.vy, SLASH_TTL_MS)
                     EXCEPT !.isSlash = TRUE,
                            !.damage = SLASH_DAMAGE,
                            !.r = U(SLICE_RADIUS),
                            !.reflectsLeft = SLASH_REFLECTS,
                            !.portalJumpsLeft = PORTAL_BULLET_JUMPS,
                            !.portalCooldownUntilMs = 0]
    IN  IF ~voidSliceFires(r, playerId, input) THEN r
        ELSE [r EXCEPT !.bulletSeq = @ + 1, !.bullets = Append(@, bullet)]

\* Room.beginStrikeTargeting
beginStrikeTargeting(r, playerId, nowMs) ==
    IF PlayerOf(r, playerId).isEcho THEN r
    ELSE IF /\ playerId \in DOMAIN r.pendingStrikes
            /\ r.pendingStrikes[playerId].active
            /\ nowMs <= r.pendingStrikes[playerId].expiresAtMs
    THEN r
    ELSE [r EXCEPT !.pendingStrikes =
            MapSet(@, playerId, [active |-> TRUE,
                                 expiresAtMs |-> nowMs + STRIKE_TARGET_WINDOW_MS])]

\* Room.beginPortalPlacement; endpoint b and expiresAtMs are not set yet
beginPortalPlacement(r, playerId, nowMs) ==
    LET player == PlayerOf(r, playerId)
        portal == [id |-> << "p", r.portalSeq >>, ownerId |-> playerId,
                   a |-> [x |-> player.x, y |-> player.y, r |-> U(PORTAL_RADIUS)],
                   hasB |-> FALSE, b |-> [x |-> 0, y |-> 0, r |-> 0],
                   createdAtMs |-> nowMs, expiresAtMs |-> Undefined]
    IN  IF player.isEcho THEN r
        ELSE IF playerId \in DOMAIN r.pendingPortals THEN r
        ELSE [r EXCEPT !.portalSeq = @ + 1,
                       !.pendingPortals =
                           MapSet(@, playerId, [portal |-> portal,
                                                expiresAtMs |-> nowMs + PORTAL_PENDING_MS])]

\* Room.activateAbility
activateAbility(r, playerId, nowMs, input) ==
    LET player == PlayerOf(r, playerId)
        item == player.heldItem
        consume(q) == IF Has(q.players, playerId)
                      THEN SetPlayer(q, [PlayerOf(q, playerId) EXCEPT !.heldItem = "none"])
                      ELSE q
    IN  IF item = "none" THEN r
        ELSE IF ~player.alive THEN r
        ELSE IF item = "echo" THEN consume(trySpawnEcho(r, playerId, nowMs))
        ELSE IF item = "time_bubble" THEN consume(spawnTimeBubble(r, playerId, nowMs))
        ELSE IF item = "phase_dash"
        THEN consume([r EXCEPT !.dashUntilMs = MapSet(@, playerId, nowMs + PHASE_DASH_MS)])
        ELSE IF item = "shield" THEN consume(activateShield(r, playerId, nowMs))
        ELSE IF item = "rift_sniper"
        THEN IF riftSniperFires(r, playerId, input)
             THEN consume(fireRiftSniper(r, playerId, input, nowMs))
             ELSE r
        ELSE IF item = "pulse_nova" THEN consume(firePulseNova(r, playerId, nowMs))
        ELSE IF item = "orbital_strike" THEN beginStrikeTargeting(r, playerId, nowMs)
        ELSE IF item = "linked_portals" THEN beginPortalPlacement(r, playerId, nowMs)
        ELSE IF item = "annihilation_bouncer"
        THEN IF bouncerFires(r, playerId, input)
             THEN consume(fireAnnihilationBouncer(r, playerId, input))
             ELSE r
        ELSE IF item = "void_slice"
        THEN IF voidSliceFires(r, playerId, input)
             THEN consume(fireVoidSlice(r, playerId, input))
             ELSE r
        ELSE consume(r)

\* ------------------------------------------------------------------------
\* The per-tick updates of Room.tick
\* ------------------------------------------------------------------------
\* Room.updatePendingStrikes
updatePendingStrikes(r, nowMs) ==
    [r EXCEPT !.pendingStrikes =
        [k \in {k \in DOMAIN @ : @[k].active /\ ~(nowMs > @[k].expiresAtMs)} |-> @[k]]]

\* Room.updatePendingPortals
updatePendingPortals(r, nowMs) ==
    [r EXCEPT !.pendingPortals =
        [k \in {k \in DOMAIN @ : ~(nowMs > @[k].expiresAtMs)} |-> @[k]]]

\* Room.updateShields (an echo's shieldHp, undefined in the code, stays 0)
updateShields(r, nowMs) ==
    [r EXCEPT !.players =
        [i \in 1..Len(@) |->
            IF @[i].isEcho THEN @[i]
            ELSE IF ~isShieldActive(r, @[i].id, nowMs) THEN [@[i] EXCEPT !.shieldHp = 0]
            ELSE @[i]]]

\* Room.schedulePickupRespawn
schedulePickupRespawn(r, type, nowMs) ==
    [r EXCEPT !.timers =
        Append(@, [kind |-> "pickup", id |-> NoId, type |-> type,
                   dueMs |-> nowMs + (IF type = "rift_sniper" THEN RIFT_SNIPER_RESPAWN_MS
                                      ELSE PICKUP_RESPAWN_MS)])]

\* the first pickup, in Map order, that the player overlaps; 0 for none
RECURSIVE firstPickupAt(_, _, _)
firstPickupAt(pickups, player, i) ==
    IF i > Len(pickups) THEN 0
    ELSE IF distanceSq(player.x, player.y, pickups[i].x, pickups[i].y)
              <= (U(PLAYER_RADIUS) + pickups[i].r) * (U(PLAYER_RADIUS) + pickups[i].r)
    THEN i
    ELSE firstPickupAt(pickups, player, i + 1)

\* Room.collectPickups
RECURSIVE collectPickupsFrom(_, _, _)
collectPickupsFrom(r, i, nowMs) ==
    IF i > Len(r.players) THEN r
    ELSE LET player == r.players[i]
             k == firstPickupAt(r.pickups, player, 1)
         IN  IF player.isEcho \/ ~player.alive \/ player.heldItem # "none" \/ k = 0
             THEN collectPickupsFrom(r, i + 1, nowMs)
             ELSE collectPickupsFrom(
                    schedulePickupRespawn(
                      [r EXCEPT !.players[i].heldItem = r.pickups[k].type,
                                !.pickups = Delete(@, r.pickups[k].id)],
                      r.pickups[k].type, nowMs),
                    i + 1, nowMs)
collectPickups(r, nowMs) == collectPickupsFrom(r, 1, nowMs)

\* Room.countPickups
countPickups(r, type) == Len(SelectSeq(r.pickups, LAMBDA p: p.type = type))

\* Room.spawnPickup; type and (x, y) are its random draws
spawnPickup(r, type, x, y) ==
    LET t == IF type = "rift_sniper" /\ countPickups(r, "rift_sniper") >= RIFT_SNIPER_MAX
             THEN "shield" ELSE type
    IN  [r EXCEPT !.pickupSeq = @ + 1,
                  !.pickups = Set(@, [id |-> << "p", r.pickupSeq >>, type |-> t,
                                      x |-> x, y |-> y, r |-> U(PICKUP_RADIUS)])]

\* Room.updateZones
updateZones(r, nowMs) ==
    [r EXCEPT !.zones = SelectSeq(@, LAMBDA z: ~(z.expiresAtMs <= nowMs))]

\* Room.updateEchoes
RECURSIVE updateEchoesFrom(_, _, _, _, _, _)
updateEchoesFrom(r, metas, i, nowMs, dtMs, allowShoot) ==
    IF i > Len(metas) THEN r
    ELSE LET meta == metas[i]
             echoId == meta.id
             k == findBufferedInput(r, meta.ownerId, nowMs - ECHO_DELAY_MS)
             buffered == r.inputBuffer[meta.ownerId][k]
             echo == PlayerOf(r, echoId)
             moveMult == getMoveMultiplier(r, meta.ownerId, echo, nowMs, TRUE)
             moved == SetPlayer(r, applyMovement(echo, buffered.keys, dtMs, moveMult))
             r1 == IF ~Has(r.echoes, echoId) THEN r
                   ELSE IF ~Has(r.players, echoId)
                   THEN [r EXCEPT !.echoes = Delete(@, echoId)]
                   ELSE IF nowMs >= meta.expiresAtMs
                   THEN [r EXCEPT !.echoes = Delete(@, echoId),
                                  !.players = Delete(@, echoId),
                                  !.lastShotAtMs = MapDelete(@, echoId)]
                   ELSE IF k = 0 \/ ~echo.alive THEN r
                   ELSE IF allowShoot /\ buffered.shoot
                   THEN tryShoot(moved, echoId, buffered.aim, nowMs, meta.ownerId)
                   ELSE moved
         IN  updateEchoesFrom(r1, metas, i + 1, nowMs, dtMs, allowShoot)
updateEchoes(r, nowMs, dtMs, allowShoot) ==
    updateEchoesFrom(r, r.echoes, 1, nowMs, dtMs, allowShoot)

\* Room.updatePortals (expiresAtMs of a committed portal is never 0)
updatePortals(r, nowMs) ==
    [r EXCEPT !.portals =
        SelectSeq(@, LAMBDA p: p.expiresAtMs = Undefined \/ nowMs < p.expiresAtMs)]

\* (a variant without the cooldown of the entities)
neverOnCooldown(r, key, nowMs) == FALSE
\* Room.updatePortalEntities: nowMs < cooldown, for the entity and the portal
\* of the key
onCooldown(r, key, nowMs) == nowMs < MapGet(r.portalCooldownUntilMs, key, 0)
\* Room.updatePortalEntities
RECURSIVE portalEntitiesFrom(_, _, _, _)
portalEntitiesFrom(r, pi, ei, nowMs) ==
    IF pi > Len(r.portals) THEN r
    ELSE IF ~r.portals[pi].hasB \/ ei > Len(r.players)
    THEN portalEntitiesFrom(r, pi + 1, 1, nowMs)
    ELSE LET portal == r.portals[pi]
             entity == r.players[ei]
             key == << entity.id, portal.id >>
             inA == isInsideCircle(entity.x, entity.y, portal.a.x, portal.a.y,
                                   portal.a.r + U(PLAYER_RADIUS))
             inB == isInsideCircle(entity.x, entity.y, portal.b.x, portal.b.y,
                                   portal.b.r + U(PLAYER_RADIUS))
             to == IF inA THEN portal.b ELSE portal.a
         IN  IF ~entity.alive \/ onCooldown(r, key, nowMs) \/ (~inA /\ ~inB)
             THEN portalEntitiesFrom(r, pi, ei + 1, nowMs)
             ELSE portalEntitiesFrom(
                    [r EXCEPT !.players[ei].x = to.x,
                              !.players[ei].y = to.y,
                              !.portalCooldownUntilMs =
                                  MapSet(@, key, nowMs + PORTAL_ENTITY_COOLDOWN_MS)],
                    pi, ei + 1, nowMs)
updatePortalEntities(r, nowMs) == portalEntitiesFrom(r, 1, 1, nowMs)

\* Room.teleportBullet
teleportBullet(bullet, portal) ==
    LET len == hypot(bullet.vx, bullet.vy)
        n == IF len = 0 THEN [nx |-> bullet.vx * 1000, ny |-> bullet.vy * 1000]
             ELSE UnitVec(bullet.vx, bullet.vy)
        offset == portal.r + U(6)
    IN  [bullet EXCEPT !.x = portal.x + TDiv(n.nx * offset, 1000),
                       !.y = portal.y + TDiv(n.ny * offset, 1000),
                       !.vx = -bullet.vx,
                       !.vy = -bullet.vy]

\* Room.updatePortalBullets
RECURSIVE portalBulletsFrom(_, _, _, _)
portalBulletsFrom(r, pi, bi, nowMs) ==
    IF pi > Len(r.portals) THEN r
    ELSE IF ~r.portals[pi].hasB \/ bi > Len(r.bullets)
    THEN portalBulletsFrom(r, pi + 1, 1, nowMs)
    ELSE LET portal == r.portals[pi]
             bullet == r.bullets[bi]
             jumpsLeft == IF bullet.portalJumpsLeft = Undefined THEN PORTAL_BULLET_JUMPS
                          ELSE bullet.portalJumpsLeft
             own == IF bullet.isSlash THEN bullet.portalCooldownUntilMs
                    ELSE bullet.bulletPortalCooldownUntilMs
             cooldown == IF own = Undefined THEN 0 ELSE own
             inA == isInsideCircle(bullet.x, bullet.y, portal.a.x, portal.a.y, portal.a.r)
             inB == isInsideCircle(bullet.x, bullet.y, portal.b.x, portal.b.y, portal.b.r)
             jumped == [teleportBullet(bullet, IF inA THEN portal.b ELSE portal.a)
                          EXCEPT !.portalJumpsLeft = jumpsLeft - 1]
             stamped == IF bullet.isSlash
                        THEN [jumped EXCEPT !.portalCooldownUntilMs =
                                                nowMs + PORTAL_BULLET_COOLDOWN_MS]
                        ELSE [jumped EXCEPT !.bulletPortalCooldownUntilMs =
                                                nowMs + PORTAL_BULLET_COOLDOWN_MS]
         IN  IF jumpsLeft <= 0 \/ nowMs < cooldown \/ (~inA /\ ~inB)
             THEN portalBulletsFrom(r, pi, bi + 1, nowMs)
             ELSE portalBulletsFrom([r EXCEPT !.bullets[bi] = stamped], pi, bi + 1, nowMs)
updatePortalBullets(r, nowMs) == portalBulletsFrom(r, 1, 1, nowMs)

\* (a variant that leaves the circle's edge out)
pointInsideCircle(x, y, cx, cy, rad) == distanceSq(x, y, cx, cy) < rad * rad
\* Room.pointInCircle
pointInCircle(x, y, cx, cy, rad) == distanceSq(x, y, cx, cy) <= rad * rad

\* Room.resolveStrike
RECURSIVE resolveStrikeFrom(_, _, _, _, _)
resolveStrikeFrom(r, strike, ids, i, nowMs) ==
    IF i > Len(ids) THEN r
    ELSE IF ~Has(r.players, ids[i]) THEN resolveStrikeFrom(r, strike, ids, i + 1, nowMs)
    ELSE LET target == PlayerOf(r, ids[i])
             nextHp == target.hp - strike.damage
             r1 == IF ~target.alive THEN r
                   ELSE IF ~pointInCircle(target.x, target.y, strike.x, strike.y, strike.r)
                   THEN r
                   ELSE IF ~target.isEcho /\ isShieldActive(r, target.id, nowMs)
                   THEN handleShieldHit(r, target.id, nowMs)
                   ELSE IF target.isEcho /\ target.ownerId = strike.byId THEN r
                   ELSE IF nextHp <= 0 THEN killEntity(r, target.id, strike.byId, nowMs)
                   ELSE PushEvent(SetPlayer(r, [target EXCEPT !.hp = nextHp]),
                                  [type |-> "hit", targetId |-> target.id,
                                   byRootId |-> strike.byId])
         IN  resolveStrikeFrom(r1, strike, ids, i + 1, nowMs)
resolveStrike(r, strike, nowMs) ==
    PushEvent(resolveStrikeFrom(r, strike, Ids(r.players), 1, nowMs),
              [type |-> "strike_boom", id |-> strike.id, x |-> strike.x,
               y |-> strike.y, r |-> strike.r])

\* Room.updateStrikes
RECURSIVE updateStrikesFrom(_, _, _, _)
updateStrikesFrom(r, strikes, i, nowMs) ==
    IF i > Len(strikes) THEN r
    ELSE IF nowMs >= strikes[i].explodeAtMs
    THEN updateStrikesFrom(resolveStrike(r, strikes[i], nowMs), strikes, i + 1, nowMs)
    ELSE updateStrikesFrom(r, strikes, i + 1, nowMs)
\* (a variant that resolves strikes in every phase)
updateStrikesAnyPhase(r, nowMs) ==
    [updateStrikesFrom(r, r.strikes, 1, nowMs)
       EXCEPT !.strikes = SelectSeq(r.strikes, LAMBDA s: ~(nowMs >= s.explodeAtMs))]
updateStrikes(r, nowMs) ==
    IF r.match.phase # "playing" THEN r
    ELSE [updateStrikesFrom(r, r.strikes, 1, nowMs)
            EXCEPT !.strikes = SelectSeq(r.strikes, LAMBDA s: ~(nowMs >= s.explodeAtMs))]

\* ------------------------------------------------------------------------
\* The bullet engine (world.ts, stepBullets)
\* ------------------------------------------------------------------------
\* Room.gcNovaCooldowns
gcNovaCooldowns(r, nowMs) ==
    [r EXCEPT !.novaHitCooldown =
        [k \in {k \in DOMAIN @ : ~(@[k] < nowMs - NOVA_GC_MS)} |-> @[k]]]

\* Room.shouldIgnoreNovaHit: its answer, and the room after the call
\* a variant without the cooldown: no test of a nova projectile is ignored
neverIgnoresNovaHit(r, bullet, playerId, nowMs) == FALSE
ignoresNovaHit(r, bullet, playerId, nowMs) ==
    /\ bullet.burstId # NoId
    /\ nowMs - MapGet(r.novaHitCooldown, << bullet.burstId, playerId >>, 0)
          < NOVA_HIT_COOLDOWN_MS
shouldIgnoreNovaHit(r, bullet, playerId, nowMs) ==
    IF bullet.burstId = NoId \/ ignoresNovaHit(r, bullet, playerId, nowMs) THEN r
    ELSE gcNovaCooldowns(
           [r EXCEPT !.novaHitCooldown = MapSet(@, << bullet.burstId, playerId >>, nowMs)],
           nowMs)

\* stepBullets, first loop: the bullet moved for dtMs, its ttl reduced
moveBullet(bullet, speedMult, dtMs) ==
    [bullet EXCEPT !.x = @ + MulDiv(bullet.vx * speedMult, dtMs, 100000),
                   !.y = @ + MulDiv(bullet.vy * speedMult, dtMs, 100000),
                   !.ttlMs = @ - dtMs]
\* ... a bouncing bullet turned back at the left and right walls
bounceX(b, radius) ==
    IF b.x - radius < 0 THEN [b EXCEPT !.x = radius, !.vx = Abs(b.vx)]
    ELSE IF b.x + radius > U(ARENA_W)
    THEN [b EXCEPT !.x = U(ARENA_W) - radius, !.vx = -Abs(b.vx)]
    ELSE b
\* ... and at the top and bottom walls
bounceY(b, radius) ==
    IF b.y - radius < 0 THEN [b EXCEPT !.y = radius, !.vy = Abs(b.vy)]
    ELSE IF b.y + radius > U(ARENA_H)
    THEN [b EXCEPT !.y = U(ARENA_H) - radius, !.vy = -Abs(b.vy)]
    ELSE b
\* ... what a bounce does to the bullet
\* a variant that leaves the damage as it was
afterBounceSameDamage(b, radius) ==
    [b EXCEPT !.bouncesLeft = @ - 1,
              !.vx = @ * 2,
              !.vy = @ * 2,
              !.radius = (radius * 8) \div 10]
afterBounce(b, radius) ==
    [b EXCEPT !.bouncesLeft = @ - 1,
              !.vx = @ * 2,
              !.vy = @ * 2,
              !.damage = (IF @ = Undefined THEN 1 ELSE @) * 2,
              !.radius = (radius * 8) \div 10]
\* ... the out-of-bounds test of the other bullets
isOut(b) ==
    \/ b.x < -U(OUT_OF_BOUNDS_MARGIN)
    \/ b.y < -U(OUT_OF_BOUNDS_MARGIN)
    \/ b.x > U(ARENA_W) + U(OUT_OF_BOUNDS_MARGIN)
    \/ b.y > U(ARENA_H) + U(OUT_OF_BOUNDS_MARGIN)
\* ... a bouncing bullet: moved is the bullet after the move, walled the same
\* after the wall tests
bouncerResult(moved, walled, radius) ==
    IF walled # moved
    THEN [bullet |-> afterBounce(walled, radius),
          remove |-> afterBounce(walled, radius).bouncesLeft <= 0 \/ walled.ttlMs <= 0]
    ELSE [bullet |-> walled, remove |-> walled.ttlMs <= 0]
integrated(bullet, moved) ==
    IF bullet.bouncesLeft # Undefined
    THEN bouncerResult(moved,
                       bounceY(bounceX(moved, BulletRadius(moved)), BulletRadius(moved)),
                       BulletRadius(moved))
    ELSE [bullet |-> moved, remove |-> isOut(moved) \/ moved.ttlMs <= 0]
\* one bullet integrated, bounced off the walls, and whether it is marked
\* for removal
IntegrateBullet(r, bullet, dtMs) ==
    integrated(bullet, moveBullet(bullet, getBulletMultiplierAt(r, bullet.x, bullet.y), dtMs))

\* The engine's working state: the room (players, bullets, events and what
\* the callbacks change), removeIds and spawned.
RECURSIVE integrateFrom(_, _, _)
integrateFrom(w, i, dtMs) ==
    IF i > Len(w.r.bullets) THEN w
    ELSE LET res == IntegrateBullet(w.r, w.r.bullets[i], dtMs)
         IN  integrateFrom(
                [w EXCEPT !.r.bullets[i] = res.bullet,
                          !.removeIds = IF res.remove THEN @ \cup {res.bullet.id} ELSE @],
                i + 1, dtMs)

\* stepBullets, reflection pass: slash number si of the slashes against
\* bullet number bi onward
RECURSIVE reflectFrom(_, _, _, _, _)
reflectFrom(w, slashIds, si, bi, nowMs) ==
    IF si > Len(slashIds) THEN w
    ELSE LET slash == Get(w.r.bullets, slashIds[si])
             reflects == IF slash.reflectsLeft = Undefined THEN 0 ELSE slash.reflectsLeft
             slashRadius == BulletRadius(slash)
             slashLen == hypot(slash.vx, slash.vy)
             sd == UnitVec(slash.vx, slash.vy)
         IN  IF \/ slash.id \in w.removeIds
                \/ reflects <= 0
                \/ slashLen = 0
                \/ bi > Len(w.r.bullets)
             THEN reflectFrom(w, slashIds, si + 1, 1, nowMs)
             ELSE LET bullet == w.r.bullets[bi]
                      bulletRadius == BulletRadius(bullet)
                      speed == Max(10, hypot(bullet.vx, bullet.vy))
                      at == [x |-> slash.x + TDiv(sd.nx * (slashRadius + U(4)), 1000),
                             y |-> slash.y + TDiv(sd.ny * (slashRadius + U(4)), 1000)]
                      made == NewBullet(bullet.id \o << "r", nowMs >>,
                                        slash.ownerId, slash.ownerRootId, at.x, at.y,
                                        MulDiv(sd.nx * SLASH_REFLECT_SPEED_MULT, speed, 100000),
                                        MulDiv(sd.ny * SLASH_REFLECT_SPEED_MULT, speed, 100000),
                                        Max(REFLECT_MIN_TTL_MS, bullet.ttlMs))
                  IN  IF \/ bullet.id \in w.removeIds
                         \/ bullet.isSlash
                         \/ bullet.id = slash.id
                         \/ distanceSq(bullet.x, bullet.y, slash.x, slash.y)
                              > (slashRadius + bulletRadius) * (slashRadius + bulletRadius)
                      THEN reflectFrom(w, slashIds, si, bi + 1, nowMs)
                      ELSE reflectFrom(
                             [w EXCEPT !.removeIds = @ \cup {bullet.id},
                                       !.r.bullets[IndexOf(w.r.bullets, slash.id)].reflectsLeft =
                                           reflects - 1,
                                       !.spawned = Append(@, made)],
                             slashIds, si, bi + 1, nowMs)

\* stepBullets, a hit that brings hp to 0: the killer (when still a player)
\* is credited
creditKill(r, byRootId) ==
    IF Has(r.players, byRootId)
    THEN SetPlayer(r, [PlayerOf(r, byRootId) EXCEPT !.kills = @ + 1])
    ELSE r
\* (a variant that credits nobody)
bulletKillUncredited(r, playerId, byRootId, nowMs) ==
    handleDeath(
      PushEvent(SetPlayer(r, [PlayerOf(r, playerId) EXCEPT !.alive = FALSE,
                                                           !.deaths = @ + 1]),
                [type |-> "death", id |-> playerId, byRootId |-> byRootId]),
      playerId, nowMs)
\* ... the target dies, the death is reported and onDeath is called
bulletKill(r, playerId, byRootId, nowMs) ==
    handleDeath(
      PushEvent(creditKill(SetPlayer(r, [PlayerOf(r, playerId) EXCEPT !.alive = FALSE,
                                                                      !.deaths = @ + 1]),
                           byRootId),
                [type |-> "death", id |-> playerId, byRootId |-> byRootId]),
      playerId, nowMs)

\* stepBullets, hit-testing of bullet number bi against the players from
\* number pi of ids (the players when the bullet's scan began) onward
\* a variant in which no projectile spares its owner
neverSkipsOwner(bullet, playerId) == FALSE
\* the projectiles without a bounce budget are not tested against the root
\* of their owner
skipsOwner(bullet, playerId) ==
    bullet.bouncesLeft = Undefined /\ playerId = bullet.ownerRootId
\* a variant in which every projectile goes on after a hit
neverStopsAtHit(bullet) == FALSE
\* the projectiles that a hit removes and that test no further entity
stopsAtHit(bullet) == ~bullet.isSlash /\ bullet.bouncesLeft = Undefined
RECURSIVE hitBullet(_, _, _, _, _)
hitBullet(w, bi, ids, pi, nowMs) ==
    IF w.r.bullets[bi].id \in w.removeIds \/ pi > Len(ids) THEN w
    ELSE IF ~Has(w.r.players, ids[pi]) THEN hitBullet(w, bi, ids, pi + 1, nowMs)
    ELSE LET bullet == w.r.bullets[bi]
             player == PlayerOf(w.r, ids[pi])
             bounces == bullet.bouncesLeft # Undefined
             single == stopsAtHit(bullet)
             next(v) == hitBullet(v, bi, ids, pi + 1, nowMs)
             done(v) == v
             removed(v) == [v EXCEPT !.removeIds = @ \cup {bullet.id}]
             \* shouldIgnoreHit, then shieldHit, are called before the overlap test
             ignored == ignoresNovaHit(w.r, bullet, player.id, nowMs)
             w1 == [w EXCEPT !.r = shouldIgnoreNovaHit(w.r, bullet, player.id, nowMs)]
             shielded == shieldTakesHit(w1.r, player.id, nowMs)
             w2 == [w1 EXCEPT !.r = handleShieldHit(w1.r, player.id, nowMs)]
             hitRadius == U(PLAYER_RADIUS) + BulletRadius(bullet)
             overlap == distanceSq(bullet.x, bullet.y, player.x, player.y)
                           <= hitRadius * hitRadius
             rehit == /\ bullet.lastHitTargetId = player.id
                      /\ bullet.lastHitAtMs # Undefined
                      /\ nowMs - bullet.lastHitAtMs < BOUNCER_REHIT_MS
             damage == IF bullet.damage = Undefined THEN 1 ELSE bullet.damage
             hp == Max(0, player.hp - damage)
             w3 == IF single THEN removed(w2) ELSE w2
             r4 == PushEvent(
                     [SetPlayer(w3.r, [player EXCEPT !.hp = hp])
                        EXCEPT !.bullets[bi].lastHitTargetId = player.id,
                               !.bullets[bi].lastHitAtMs = nowMs],
                     [type |-> "hit", targetId |-> player.id,
                      byRootId |-> bullet.ownerRootId])
             r7 == bulletKill(r4, player.id, bullet.ownerRootId, nowMs)
             w8 == [w3 EXCEPT !.r = IF hp = 0 /\ player.alive THEN r7 ELSE r4]
         IN  IF ~player.alive THEN next(w)
             ELSE IF skipsOwner(bullet, player.id) THEN next(w)
             ELSE IF isDashing(w.r, player.id, nowMs) THEN next(w)
             ELSE IF ignored THEN done(removed(w1))
             ELSE IF shielded
             THEN IF ~bullet.isSlash THEN done(removed(w2)) ELSE next(w2)
             ELSE IF ~overlap THEN next(w2)
             ELSE IF rehit THEN next(w2)
             ELSE IF single THEN done(w8) ELSE next(w8)

\* stepBullets, the passes after the integration
\* (a variant in which no projectile counts as a slash)
slashIdsNone(w) == << >>
\* the slashes, in the order of the live set
slashIdsOf(w) == Ids(SelectSeq(w.r.bullets, LAMBDA b: b.isSlash))
reflectPass(w, nowMs) == reflectFrom(w, slashIdsOf(w), 1, 1, nowMs)
\* ... of the bullets from number bi onward
RECURSIVE hitFrom(_, _, _)
hitFrom(w, bi, nowMs) ==
    IF bi > Len(w.r.bullets) THEN w
    ELSE hitFrom(hitBullet(w, bi, Ids(w.r.players), 1, nowMs), bi + 1, nowMs)
hitPass(w, nowMs) == hitFrom(w, 1, nowMs)
\* the spawned bullets are added, the marked ones deleted
closeStep(w) ==
    [w.r EXCEPT !.bullets = SelectSeq(@ \o w.spawned, LAMBDA b: b.id \notin w.removeIds)]

\* the engine's working state at the start of stepBullets
engineStart(r) == [r |-> r, removeIds |-> {}, spawned |-> << >>]

\* ------------------------------------------------------------------------
\* Bots
\* ------------------------------------------------------------------------
\* Room.getBotConfig (speedMult in hundredths)
getBotConfig(r) ==
    IF r.botDifficulty = "easy"
    THEN [aimJitter |-> 60, reactionMs |-> 300, shootRange |-> 450, speedMult |-> 75]
    ELSE IF r.botDifficulty = "hard"
    THEN [aimJitter |-> 10, reactionMs |-> 100, shootRange |-> 750, speedMult |-> 105]
    ELSE [aimJitter |-> 28, reactionMs |-> 180, shootRange |-> 650, speedMult |-> 95]

\* the first element of pool nearest to (x, y)
RECURSIVE nearestFrom(_, _, _, _, _)
nearestFrom(pool, x, y, i, best) ==
    IF i > Len(pool) THEN best
    ELSE IF distanceSq(x, y, pool[i].x, pool[i].y) < distanceSq(x, y, best.x, best.y)
    THEN nearestFrom(pool, x, y, i + 1, pool[i])
    ELSE nearestFrom(pool, x, y, i + 1, best)

\* Room.findBotTarget: the pool it chooses from, and its choice
botTargetPool(r, botId) ==
    LET humans == SelectSeq(r.players, LAMBDA p: ~p.isEcho /\ ~p.isBot /\ p.alive)
    IN  IF Len(humans) > 0 THEN humans
        ELSE SelectSeq(r.players, LAMBDA p: p.id # botId /\ p.alive)
findBotTarget(r, botId) ==
    LET pool == botTargetPool(r, botId)
        bot == PlayerOf(r, botId)
    IN  nearestFrom(pool, bot.x, bot.y, 2, pool[1])

\* Room.buildBotInput: the bot's AI record after the strafe flip; dist is
\* the distance to the target
strafeFlip(r, botId, ai, dist, nowMs) ==
    IF ~(dist > U(280)) /\ ~(dist < U(180)) /\ botId \in DOMAIN r.botAi
          /\ nowMs > ai.nextStrafeFlipAtMs
    THEN [ai EXCEPT !.strafeDir = -@, !.nextStrafeFlipAtMs = nowMs + 700]
    ELSE ai
\* ... and after the think step; jitter is the pair of random aim offsets,
\* in tenths
think(r, ai, target, nowMs, jitter) ==
    IF nowMs >= ai.nextThinkAtMs \/ ai.targetId # target.id
    THEN [ai EXCEPT !.targetId = target.id,
                    !.nextThinkAtMs = nowMs + getBotConfig(r).reactionMs,
                    !.aim = [x |-> target.x + jitter.x, y |-> target.y + jitter.y]]
    ELSE ai
botAiAfter(r, botId, target, nowMs, jitter) ==
    think(r,
          strafeFlip(r, botId,
                     MapGet(r.botAi, botId,
                            [nextThinkAtMs |-> 0, nextStrafeFlipAtMs |-> 0, strafeDir |-> 1,
                             targetId |-> NoId, aim |-> [x |-> target.x, y |-> target.y]]),
                     hypot(target.x - PlayerOf(r, botId).x, target.y - PlayerOf(r, botId).y),
                     nowMs),
          target, nowMs, jitter)

\* Room.buildBotInput: the input it returns (useItem is always false); ai is
\* the AI record after the call, (dx, dy) the vector to the target and dist
\* its length, (moveX, moveY) in thousandths
botKeys(moveX, moveY) ==
    [up |-> moveY < -200, down |-> moveY > 200,
     left |-> moveX < -200, right |-> moveX > 200]
botMove(dx, dy, dist, strafeDir) ==
    IF dist > U(280) THEN botKeys(TDiv(dx * 1000, dist), TDiv(dy * 1000, dist))
    ELSE IF dist < U(180) THEN botKeys(TDiv(-dx * 1000, dist), TDiv(-dy * 1000, dist))
    ELSE botKeys(TDiv(-dy * 1000, dist) * strafeDir, TDiv(dx * 1000, dist) * strafeDir)
botInput(r, target, nowMs, ai, dx, dy, dist) ==
    [seq |-> nowMs,
     keys |-> botMove(dx, dy, dist, ai.strafeDir),
     aim |-> ai.aim,
     shoot |-> dist < U(getBotConfig(r).shootRange) /\ target.alive,
     useItem |-> FALSE]
\* Math.hypot(dx, dy) || 1
distOr1(d) == IF d = 0 THEN 10 ELSE d
buildBotInput(r, botId, target, nowMs, ai) ==
    botInput(r, target, nowMs, ai,
             target.x - PlayerOf(r, botId).x, target.y - PlayerOf(r, botId).y,
             distOr1(hypot(target.x - PlayerOf(r, botId).x,
                           target.y - PlayerOf(r, botId).y)))

\* Room.updateBots, one bot: the AI record is stored, the bot moves and
\* shoots as its input says
botActs(r, botId, bot, input, nowMs, dtMs) ==
    IF input.shoot THEN tryShoot(SetPlayer(r, applyMovement(bot, input.keys, dtMs,
                                    (getMoveMultiplier(r, botId, bot, nowMs, FALSE)
                                       * getBotConfig(r).speedMult) \div 100)),
                                 botId, input.aim, nowMs, botId)
    ELSE SetPlayer(r, applyMovement(bot, input.keys, dtMs,
                                    (getMoveMultiplier(r, botId, bot, nowMs, FALSE)
                                       * getBotConfig(r).speedMult) \div 100))
botThinks(r, botId, target, ai, nowMs, dtMs) ==
    botActs([r EXCEPT !.botAi = MapSet(@, botId, ai)], botId, PlayerOf(r, botId),
            buildBotInput(r, botId, target, nowMs, ai), nowMs, dtMs)
botStep(r, botId, target, nowMs, dtMs, jitter) ==
    botThinks(r, botId, target, botAiAfter(r, botId, target, nowMs, jitter), nowMs, dtMs)

\* Room.updateBots; jitters[i] is the random aim offset of bot number i
RECURSIVE updateBotsFrom(_, _, _, _, _)
updateBotsFrom(r, i, nowMs, dtMs, jitters) ==
    IF i > Len(r.botIds) THEN r
    ELSE updateBotsFrom(
           IF \/ ~Has(r.players, r.botIds[i])
              \/ ~PlayerOf(r, r.botIds[i]).alive
              \/ Len(botTargetPool(r, r.botIds[i])) = 0
           THEN r
           ELSE botStep(r, r.botIds[i], findBotTarget(r, r.botIds[i]), nowMs, dtMs,
                        jitters[i]),
           i + 1, nowMs, dtMs, jitters)
updateBots(r, nowMs, dtMs, allowShoot, jitters) ==
    IF ~allowShoot THEN r ELSE updateBotsFrom(r, 1, nowMs, dtMs, jitters)

\* ------------------------------------------------------------------------
\* Room.tick
\* ------------------------------------------------------------------------
\* the body of the loop of Room.tick over this.players, for a human that
\* is alive and has sent an input: ability activation when canUseItem
\* answers true
useItemStep(r, playerId, nowMs, input) ==
    IF r.match.phase = "playing" /\ input.useItem
          /\ canUseItemAnswer(r, playerId, input.seq)
    THEN activateAbility(canUseItem(r, playerId, input.seq), playerId, nowMs, input)
    ELSE r
\* ... shooting
shootStep(r, playerId, nowMs, input) ==
    IF r.match.phase = "playing" /\ input.shoot
    THEN tryShoot(r, playerId, input.aim, nowMs, playerId)
    ELSE r
\* ... movement
moveStep(r, playerId, nowMs, dtMs, input) ==
    SetPlayer(r, applyMovement(PlayerOf(r, playerId), input.keys, dtMs,
                               getMoveMultiplier(r, playerId, PlayerOf(r, playerId),
                                                 nowMs, FALSE)))
humanStep(r, playerId, nowMs, dtMs, input) ==
    useItemStep(
      shootStep(
        moveStep(bufferInput(r, playerId, input, nowMs), playerId, nowMs, dtMs, input),
        playerId, nowMs, input),
      playerId, nowMs, input)

\* whether the loop skips the entity
skipsHuman(r, playerId) ==
    \/ PlayerOf(r, playerId).isEcho
    \/ playerId \notin DOMAIN r.latestInputs
    \/ ~PlayerOf(r, playerId).alive
    \/ PlayerOf(r, playerId).isBot

\* the loop of Room.tick over this.players: movement, shooting and ability
\* activation of the humans, from their latest inputs
RECURSIVE humansFrom(_, _, _, _, _)
humansFrom(r, ids, i, nowMs, dtMs) ==
    IF i > Len(ids) THEN r
    ELSE humansFrom(
           IF ~Has(r.players, ids[i]) \/ skipsHuman(r, ids[i]) THEN r
           ELSE humanStep(r, ids[i], nowMs, dtMs, r.latestInputs[ids[i]]),
           ids, i + 1, nowMs, dtMs)

\* (a variant that ends the match one tick late at the exact boundary)
matchEndsLate(r, nowMs) ==
    /\ r.match.phase = "playing"
    /\ r.match.endsAtMs # Undefined /\ r.match.endsAtMs # 0
    /\ nowMs > r.match.endsAtMs
\* the end-of-match test of Room.tick (endsAtMs undefined or 0 is falsy)
matchEnds(r, nowMs) ==
    /\ r.match.phase = "playing"
    /\ r.match.endsAtMs # Undefined /\ r.match.endsAtMs # 0
    /\ nowMs >= r.match.endsAtMs
endMatch(r, nowMs) ==
    IF matchEnds(r, nowMs) THEN [r EXCEPT !.match.phase = "ended"] ELSE r

\* whether this tick runs ensureBots
botCheckDue(r, nowMs) == r.fillWithBots /\ nowMs - r.lastBotCheckMs > BOT_CHECK_MS
botCheck(r, nowMs, spawns) ==
    IF botCheckDue(r, nowMs)
    THEN ensureBots([r EXCEPT !.lastBotCheckMs = nowMs], spawns)
    ELSE r

\* the start of Room.tick: lastTickMs, and the events queued since the last
\* snapshot open this tick's event list
beginTick(r, nowMs) ==
    [r EXCEPT !.lastTickMs = nowMs, !.events = r.pendingEvents, !.pendingEvents = << >>]

\* the entity updates of Room.tick after the loop over the humans, in the
\* order of the code
entityUpdates(r, nowMs, dtMs, isPlaying, jitters) ==
    updateShields(
      updatePendingPortals(
        updatePendingStrikes(
          updateBots(r, nowMs, dtMs, isPlaying, jitters),
          nowMs),
        nowMs),
      nowMs)
worldUpdates(r, nowMs, dtMs, isPlaying) ==
    updatePortalBullets(
      updatePortalEntities(
        updatePortals(
          updateEchoes(updateZones(collectPickups(r, nowMs), nowMs),
                       nowMs, dtMs, isPlaying),
          nowMs),
        nowMs),
      nowMs)

\* ------------------------------------------------------------------------
\* Timers
\* ------------------------------------------------------------------------
RemoveAt(seq, i) == [j \in 1..(Len(seq) - 1) |-> IF j < i THEN seq[j] ELSE seq[j + 1]]

\* (a variant that does not look at the phase)
respawnCallbackAnyPhase(r, playerId, spawn) ==
    IF ~Has(r.players, playerId) THEN r
    ELSE SetPlayer(r, [PlayerOf(r, playerId) EXCEPT !.x = spawn.x, !.y = spawn.y,
                                                   !.maxHp = r.maxHp, !.hp = r.maxHp,
                                                   !.alive = TRUE])
\* the callback of Room.scheduleRespawn; spawn is its randomSpawn()
respawnCallback(r, playerId, spawn) ==
    IF ~Has(r.players, playerId) THEN r
    ELSE IF r.match.phase # "playing" THEN r
    ELSE SetPlayer(r, [PlayerOf(r, playerId) EXCEPT !.x = spawn.x, !.y = spawn.y,
                                                   !.maxHp = r.maxHp, !.hp = r.maxHp,
                                                   !.alive = TRUE])

\* the callback of Room.schedulePickupRespawn
pickupCallback(r, type, x, y) ==
    IF Len(r.pickups) < PICKUP_COUNT THEN spawnPickup(r, type, x, y) ELSE r

\* ------------------------------------------------------------------------
\* Match
\* ------------------------------------------------------------------------
\* Room.configureMatchDuration: Math.min(900, Math.max(60, Math.floor(d || 300)))
configureMatchDuration(r, durationSec) ==
    [r EXCEPT !.match.durationSec =
        Min(MAX_DURATION_SEC,
            Max(MIN_DURATION_SEC,
                IF durationSec = 0 THEN DEFAULT_DURATION_SEC ELSE durationSec))]

\* the second loop of Room.resetForMatch; spawns[k] is the randomSpawn() of
\* the k-th entity it respawns
RECURSIVE respawnAllFrom(_, _, _, _, _)
respawnAllFrom(r, i, k, spawns, clearScores) ==
    IF i > Len(r.players) THEN r
    ELSE IF r.players[i].isEcho THEN respawnAllFrom(r, i + 1, k, spawns, clearScores)
    ELSE LET spawn == SPAWN_POINTS[spawns[k]]
             p == r.players[i]
             p1 == [p EXCEPT !.x = spawn.x, !.y = spawn.y, !.maxHp = r.maxHp,
                             !.hp = r.maxHp, !.alive = TRUE, !.heldItem = "none",
                             !.shieldHp = 0]
             p2 == IF clearScores THEN [p1 EXCEPT !.kills = 0, !.deaths = 0] ELSE p1
         IN  respawnAllFrom([r EXCEPT !.players[i] = p2,
                                      !.shieldUntilMs = MapDelete(@, p.id)],
                            i + 1, k + 1, spawns, clearScores)

\* Room.resetForMatch
resetForMatch(r, clearScores, spawns) ==
    LET echoIds == IdSet(r.echoes)
        r1 == [r EXCEPT !.bullets = << >>,
                        !.zones = << >>,
                        !.strikes = << >>,
                        !.pendingStrikes = EmptyMap,
                        !.pendingEvents = << >>,
                        !.portals = << >>,
                        !.pendingPortals = EmptyMap,
                        !.portalCooldownUntilMs = EmptyMap,
                        !.botAi = EmptyMap,
                        !.echoes = << >>,
                        !.players = SelectSeq(@, LAMBDA p: p.id \notin echoIds),
                        !.lastShotAtMs = [k \in DOMAIN @ \ echoIds |-> @[k]]]
    IN  respawnAllFrom(r1, 1, 1, spawns, clearScores)

\* (a variant that keeps the scores)
startMatchKeepsScores(r, nowMs, spawns) ==
    [resetForMatch(r, FALSE, spawns)
        EXCEPT !.match.phase = "playing",
               !.match.startedAtMs = nowMs,
               !.match.endsAtMs = nowMs + r.match.durationSec * 1000]
\* Room.startMatch
startMatch(r, nowMs, spawns) ==
    [resetForMatch(r, TRUE, spawns)
        EXCEPT !.match.phase = "playing",
               !.match.startedAtMs = nowMs,
               !.match.endsAtMs = nowMs + r.match.durationSec * 1000]

\* (a variant that keeps the time the match was to end)
restartMatchKeepsEnd(r, spawns) ==
    resetForMatch([r EXCEPT !.match.phase = "lobby",
                            !.match.startedAtMs = Undefined],
                  TRUE, spawns)
\* Room.restartMatch
restartMatch(r, spawns) ==
    resetForMatch([r EXCEPT !.match.phase = "lobby",
                            !.match.startedAtMs = Undefined,
                            !.match.endsAtMs = Undefined],
                  TRUE, spawns)

\* ------------------------------------------------------------------------
\* Two-phase abilities: the confirm step
\* ------------------------------------------------------------------------
\* (a variant that takes a confirmation after the window has closed)
strikeCommitsLate(r, playerId, nowMs) ==
    /\ r.match.phase = "playing"
    /\ Has(r.players, playerId)
    /\ ~PlayerOf(r, playerId).isEcho
    /\ PlayerOf(r, playerId).alive
    /\ playerId \in DOMAIN r.pendingStrikes
    /\ r.pendingStrikes[playerId].active
    /\ PlayerOf(r, playerId).heldItem = "orbital_strike"
\* Room.confirmStrike: whether it commits, and the room after it
strikeCommits(r, playerId, nowMs) ==
    /\ r.match.phase = "playing"
    /\ Has(r.players, playerId)
    /\ ~PlayerOf(r, playerId).isEcho
    /\ PlayerOf(r, playerId).alive
    /\ playerId \in DOMAIN r.pendingStrikes
    /\ r.pendingStrikes[playerId].active
    /\ ~(nowMs > r.pendingStrikes[playerId].expiresAtMs)
    /\ PlayerOf(r, playerId).heldItem = "orbital_strike"
confirmStrike(r, playerId, x, y, nowMs) ==
    LET strike == [id |-> << "s", r.strikeSeq >>,
                   x |-> clamp(x, 0, U(ARENA_W)), y |-> clamp(y, 0, U(ARENA_H)),
                   explodeAtMs |-> nowMs + STRIKE_MARK_MS, r |-> U(STRIKE_RADIUS),
                   damage |-> STRIKE_DAMAGE, byId |-> playerId]
    IN  IF ~strikeCommits(r, playerId, nowMs) THEN r
        ELSE [SetPlayer(r, [PlayerOf(r, playerId) EXCEPT !.heldItem = "none"])
                EXCEPT !.strikeSeq = @ + 1,
                       !.strikes = Append(@, strike),
                       !.pendingStrikes = MapDelete(@, playerId),
                       !.pendingEvents =
                           Append(@, [type |-> "strike_mark", id |-> strike.id,
                                      x |-> strike.x, y |-> strike.y,
                                      etaMs |-> STRIKE_MARK_MS])]

\* Room.confirmPortalB
confirmPortalB(r, playerId, x, y, nowMs) ==
    IF r.match.phase # "playing" THEN r
    ELSE IF \/ ~Has(r.players, playerId)
            \/ PlayerOf(r, playerId).isEcho
            \/ ~PlayerOf(r, playerId).alive
    THEN r
    ELSE IF \/ playerId \notin DOMAIN r.pendingPortals
            \/ nowMs > r.pendingPortals[playerId].expiresAtMs
    THEN [r EXCEPT !.pendingPortals = MapDelete(@, playerId)]
    ELSE IF PlayerOf(r, playerId).heldItem # "linked_portals" THEN r
    ELSE LET portal == [r.pendingPortals[playerId].portal
                          EXCEPT !.hasB = TRUE,
                                 !.b = [x |-> clamp(x, 0, U(ARENA_W)),
                                        y |-> clamp(y, 0, U(ARENA_H)),
                                        r |-> U(PORTAL_RADIUS)],
                                 !.expiresAtMs = nowMs + PORTAL_DURATION_MS]
         IN  [SetPlayer(r, [PlayerOf(r, playerId) EXCEPT !.heldItem = "none"])
                EXCEPT !.portals = Append(@, portal),
                       !.pendingPortals = MapDelete(@, playerId)]

\* ------------------------------------------------------------------------
\* Construction
\* ------------------------------------------------------------------------
\* Date.now() when the room is created (any instant far from 0, as a real
\* clock is)
T0 == 1000 * 1000

RECURSIVE spawnPickups(_, _, _)
spawnPickups(r, draws, i) ==
    IF i > Len(draws) THEN r
    ELSE spawnPickups(spawnPickup(r, draws[i].type, draws[i].x, draws[i].y), draws, i + 1)

\* room:create (index.ts) -> RoomManager.createRoom -> new Room, addPlayer,
\* then ensureBots; pickupDraws are the PICKUP_COUNT draws of
\* spawnInitialPickups, hostSpawn and botSpawns the randomSpawn() draws
createRoom(hostId, options, pickupDraws, hostSpawn, botSpawns) ==
    ensureBots(
      addPlayer(
        spawnPickups(NewRoom(options.maxPlayers, options.fillWithBots, options.botCount,
                             options.botDifficulty, options.maxHp, hostId, T0),
                     pickupDraws, 1),
        hostId, SPAWN_POINTS[hostSpawn]),
      botSpawns)

\* the options of room:create
Options(maxPlayers, fillWithBots, botCount, botDifficulty, maxHp) ==
    [maxPlayers |-> maxPlayers, fillWithBots |-> fillWithBots, botCount |-> botCount,
     botDifficulty |-> botDifficulty, maxHp |-> maxHp]

\* ------------------------------------------------------------------------
\* Actions: the socket handlers of index.ts, the tick and the timers
\* ------------------------------------------------------------------------
\* RoomManager.getRoomByPlayer(socket.id) finds the room
InRoom(p) == room.ticking /\ Has(room.players, p)

\* the sequence numbers lastUseItemSeq holds
Recorded(r) == {<< p, r.lastUseItemSeq[p] >> : p \in DOMAIN r.lastUseItemSeq}
\* the operation that produced the state: its name, the socket it came from,
\* whether the handler's guards let it through, and the phase it found
Did(op, by, ok) ==
    /\ last' = [op |-> op, by |-> by, ok |-> ok, from |-> room.match.phase]
    /\ used' = used \cup Recorded(room')

\* socket.on("room:join")
RoomJoin(p, spawn, botSpawns) ==
    /\ room.ticking
    /\ ~Has(room.players, p)
    /\ LET r1 == IF isFull(room) THEN removeBotsForSpace(room, 1) ELSE room
       IN  /\ room' = IF isFull(r1) THEN r1
                      ELSE ensureBots(addPlayer(r1, p, SPAWN_POINTS[spawn]), botSpawns)
           /\ Did("join", p, ~isFull(r1))
    /\ UNCHANGED clock

\* socket.on("room:join") from a socket that is in the room already: the
\* handler makes no difference, and Room.addPlayer sets the entry anew
RoomRejoin(p, spawn, botSpawns) ==
    /\ InRoom(p)
    /\ LET r1 == IF isFull(room) THEN removeBotsForSpace(room, 1) ELSE room
       IN  /\ room' = IF isFull(r1) THEN r1
                      ELSE ensureBots(addPlayer(r1, p, SPAWN_POINTS[spawn]), botSpawns)
           /\ Did("rejoin", p, ~isFull(r1))
    /\ UNCHANGED clock

\* socket.on("disconnect") -> RoomManager.removePlayer, then ensureBots
Disconnect(p, botSpawns) ==
    /\ InRoom(p)
    /\ LET r1 == removePlayer(room, p)
       IN  room' = IF isEmpty(r1) THEN [r1 EXCEPT !.ticking = FALSE]
                   ELSE ensureBots(r1, botSpawns)
    /\ Did("disconnect", p, TRUE)
    /\ UNCHANGED clock

\* socket.on("player:input")
PlayerInput(p, input) ==
    /\ InRoom(p)
    /\ room' = handleInput(room, p, input)
    /\ Did("input", p, TRUE)
    /\ UNCHANGED clock

\* (a variant that forgets who the host is)
anyoneInLobby(r, p) == r.match.phase = "lobby"
\* the guards of match:configure and match:start
hostInLobby(r, p) == r.match.hostId = p /\ r.match.phase = "lobby"
\* (a variant that forgets who the host is)
anyoneOutOfLobby(r, p) == r.match.phase # "lobby"
\* the guards of match:restart
hostOutOfLobby(r, p) == r.match.hostId = p /\ r.match.phase # "lobby"

\* socket.on("match:configure")
MatchConfigure(p, durationSec) ==
    /\ InRoom(p)
    /\ room' = IF hostInLobby(room, p) THEN configureMatchDuration(room, durationSec)
               ELSE room
    /\ Did("configure", p, hostInLobby(room, p))
    /\ UNCHANGED clock

\* socket.on("match:start"), e ms after the last event
MatchStart(p, e, spawns) ==
    /\ InRoom(p)
    /\ clock' = clock + e
    /\ room' = IF hostInLobby(room, p) THEN startMatch(room, clock', spawns) ELSE room
    /\ Did("start", p, hostInLobby(room, p))

\* socket.on("match:restart")
MatchRestart(p, spawns) ==
    /\ InRoom(p)
    /\ room' = IF hostOutOfLobby(room, p) THEN restartMatch(room, spawns) ELSE room
    /\ Did("restart", p, hostOutOfLobby(room, p))
    /\ UNCHANGED clock

\* socket.on("strike:confirm"), e ms after the last event
StrikeConfirm(p, x, y, e) ==
    /\ InRoom(p)
    /\ clock' = clock + e
    /\ room' = confirmStrike(room, p, x, y, clock')
    /\ Did("strike_confirm", p, strikeCommits(room, p, clock'))

\* socket.on("portal:placeB"), e ms after the last event
PortalPlaceB(p, x, y, e) ==
    /\ InRoom(p)
    /\ clock' = clock + e
    /\ room' = confirmPortalB(room, p, x, y, clock')
    /\ Did("portal_place", p, room' # room)

\* the setInterval callback, d ms after the previous tick: the statements of
\* Room.tick in the order of the code, each on the result of the one before
\* (isPlaying and dt are those of the tick's start; stepBullets returns at
\* once when damage is not allowed)
Tick(d, jitters, spawns) ==
    /\ room.ticking
    /\ room.lastTickMs + d >= clock
    /\ clock' = room.lastTickMs + d
    /\ \E dtMs \in {Max(1, clock' - room.lastTickMs)} :
       \E isPlaying \in {room.match.phase = "playing"} :
       \E r1 \in {humansFrom(beginTick(room, clock'), Ids(room.players), 1, clock', dtMs)} :
       \E r2 \in {entityUpdates(r1, clock', dtMs, isPlaying, jitters)} :
       \E r2w \in {worldUpdates(r2, clock', dtMs, isPlaying)} :
       \E r3 \in {updateStrikes(r2w, clock')} :
       \E w1 \in {integrateFrom(engineStart(r3), 1, dtMs)} :
       \E w2 \in {reflectPass(w1, clock')} :
       \E w3 \in {hitPass(w2, clock')} :
       \E r4 \in {IF isPlaying THEN closeStep(w3) ELSE r3} :
          room' = botCheck(endMatch(r4, clock'), clock', spawns)
    /\ Did("tick", NoId, TRUE)

\* a respawn setTimeout fires, at its due time or later
RespawnTimer(i, spawn) ==
    /\ i \in 1..Len(room.timers)
    /\ room.timers[i].kind = "respawn"
    /\ clock' = Max(clock, room.timers[i].dueMs)
    /\ room' = [respawnCallback(room, room.timers[i].id, SPAWN_POINTS[spawn])
                  EXCEPT !.timers = RemoveAt(@, i)]
    /\ Did("respawn", room.timers[i].id, TRUE)

\* a pickup-respawn setTimeout fires, at its due time or later
PickupTimer(i, type, x, y) ==
    /\ i \in 1..Len(room.timers)
    /\ room.timers[i].kind = "pickup"
    /\ clock' = Max(clock, room.timers[i].dueMs)
    /\ room' = [pickupCallback(room, type, x, y) EXCEPT !.timers = RemoveAt(@, i)]
    /\ Did("pickup", NoId, TRUE)

\* the draws of the randomSpawn() calls of a reset or of ensureBots
SpawnDraws(n, choices) == [1..n -> choices]
Humans(n) == {HumanId(i) : i \in 1..n}
Keys(up, down, left, right) == [up |-> up, down |-> down, left |-> left, right |-> right]
NoKeys == Keys(FALSE, FALSE, FALSE, FALSE)
Input(seq, keys, aimX, aimY, shoot, useItem) ==
    [seq |-> seq, keys |-> keys, aim |-> [x |-> aimX, y |-> aimY],
     shoot |-> shoot, useItem |-> useItem]
Pickup(type, x, y) == [type |-> type, x |-> x, y |-> y]

\* ------------------------------------------------------------------------
\* The match lifecycle: a room without bots, two players that join and
\* leave, the host's configure / start / restart requests and the ticks of
\* a whole match
\* ------------------------------------------------------------------------
\* no event is considered after T0 + MatchHorizon
MatchHorizon == 61200
\* a match is started within StartBy ms of the room's creation
StartBy == 100
\* the ticks considered are those at most FineWindow ms after a multiple of
\* the long step: runs of regular ticks separated by long stalls
FineWindow == 100

FarPickups ==
    << Pickup("shield", U(600), U(400)), Pickup("shield", U(600), U(440)),
       Pickup("shield", U(600), U(480)), Pickup("shield", U(640), U(400)),
       Pickup("shield", U(640), U(440)), Pickup("shield", U(640), U(480)) >>

MatchPlayers == Humans(2)
MatchDurations == {0, 45, 60}
MatchSteps == {TICK_MS, 400 * TICK_MS}
MatchOffsets == {0, 20}
MatchSpawns == {1}
Idle == Input(1, NoKeys, 0, 0, FALSE, FALSE)

InitMatch ==
    /\ room = createRoom(HumanId(1), Options(2, FALSE, 0, "normal", 3), FarPickups, 1, << >>)
    /\ clock = T0
    /\ last = [op |-> "create", by |-> HumanId(1), ok |-> TRUE, from |-> "lobby"]
    /\ used = {}

Within(horizon) == clock' <= T0 + horizon
Sampled(step, window) == (clock' - T0) % step <= window

NextMatch ==
    \/ \E p \in MatchPlayers : RoomJoin(p, 1, << >>)
    \/ \E p \in MatchPlayers : Disconnect(p, << >>)
    \/ \E p \in MatchPlayers : PlayerInput(p, Idle)
    \/ \E p \in MatchPlayers, d \in MatchDurations : MatchConfigure(p, d)
    \/ \E p \in MatchPlayers, e \in MatchOffsets :
          \E spawns \in SpawnDraws(Len(room.players), MatchSpawns) :
             MatchStart(p, e, spawns) /\ Within(StartBy)
    \/ \E p \in MatchPlayers :
          \E spawns \in SpawnDraws(Len(room.players), MatchSpawns) :
             MatchRestart(p, spawns)
    \/ \E d \in MatchSteps :
          /\ Tick(d, << >>, << >>)
          /\ Within(MatchHorizon)
          /\ Sampled(400 * TICK_MS, FineWindow)

SpecMatch == InitMatch /\ [][NextMatch]_vars

\* ------------------------------------------------------------------------
\* Properties of the match lifecycle
\* ------------------------------------------------------------------------
Accepted(op) == last'.op = op /\ last'.ok
Phase == room.match.phase

\* C1: the match phase changes only along lobby -> playing (by a start
\* request of the host, and by nothing else), playing -> ended (by a tick,
\* and by nothing else) and playing or ended -> lobby (by a restart request
\* of the host, and by nothing else).
C1_PhaseEdges ==
    [][room'.match.phase # Phase =>
          \/ /\ Phase = "lobby" /\ room'.match.phase = "playing"
             /\ Accepted("start") /\ last'.by = room.match.hostId
          \/ /\ Phase = "playing" /\ room'.match.phase = "ended"
             /\ last'.op = "tick"
          \/ /\ Phase \in {"playing", "ended"} /\ room'.match.phase = "lobby"
             /\ Accepted("restart") /\ last'.by = room.match.hostId]_vars
\* a match that ended is back in the lobby by the host's restart
C1_Witness ==
    /\ last.op = "restart" /\ last.ok /\ last.from = "ended"
    /\ Phase = "lobby"

\* C2: startMatch(now) sets endsAtMs to now + durationSec * 1000 for the
\* configured duration, and a tick of a playing match ends it exactly when
\* its timestamp has reached endsAtMs: the first such tick does, no earlier
\* one does.
C2_MatchTimer ==
    [][/\ Accepted("start") =>
            /\ room'.match.startedAtMs = clock'
            /\ room'.match.endsAtMs = clock' + room.match.durationSec * 1000
            /\ room'.match.durationSec = room.match.durationSec
       /\ (last'.op = "tick" /\ Phase = "playing") =>
            /\ room'.match.endsAtMs = room.match.endsAtMs
            /\ (room'.match.phase = "ended") = (clock' >= room.match.endsAtMs)
            /\ room'.match.phase \in {"playing", "ended"}]_vars
\* the tick whose timestamp is exactly endsAtMs has ended the match
C2_Witness ==
    /\ last.op = "tick" /\ last.from = "playing"
    /\ Phase = "ended"
    /\ clock = room.match.endsAtMs

\* C3: a configure, start or restart request that does not come from the
\* host is discarded and leaves the whole room as it was, and so is a
\* configure or start request outside the lobby and a restart request in
\* the lobby.
C3_Rejected ==
    [][/\ (last'.op \in {"configure", "start", "restart"}
              /\ last'.by # room.match.hostId) => room' = room
       /\ (last'.op \in {"configure", "start"} /\ Phase # "lobby") => room' = room
       /\ (last'.op = "restart" /\ Phase = "lobby") => room' = room
       /\ (last'.op \in {"configure", "start", "restart"} /\ ~last'.ok) => room' = room]_vars
\* a restart request of a player who is not the host, during a match
C3_Witness ==
    /\ last.op = "restart" /\ ~last.ok /\ last.from = "playing"
    /\ last.by # room.match.hostId
    /\ Has(room.players, last.by)

\* pickups of the given types lying on spawn point n
AtSpawn(n, types) == [i \in 1..Len(types) |->
                         Pickup(types[i], SPAWN_POINTS[n].x, SPAWN_POINTS[n].y)]

\* ------------------------------------------------------------------------
\* A skirmish: the host, a second player and a bot at one spawn point where
\* an echo, a shield and a time-bubble pickup lie; the second player walks
\* right, the host and the bot fire after them; matches are started and
\* restarted at any tick
\* ------------------------------------------------------------------------
\* regular ticks are considered up to ArenaWindow ms after the room's
\* creation ...
ArenaWindow == 2800
\* ... and up to ArenaTail ms after the long stall
ArenaTail == 1300
\* players join, choose their input and start the first match within
\* ArenaSetup ms
ArenaSetup == 50
\* the long stall, in ticks: four ticks short of the default match duration
ArenaStall == 5996
\* the host restarts at multiples of ArenaRestartEvery ms
ArenaRestartEvery == 1400

ArenaPickups ==
    AtSpawn(1, << "echo", "shield", "time_bubble", "orbital_strike" >>)
      \o SubSeq(FarPickups, 1, 2)
ArenaHorizon == ArenaStall * TICK_MS + ArenaTail
Fire(seq) == Input(seq, NoKeys, U(ARENA_W), U(60), TRUE, TRUE)
WalkRight == Input(1, Keys(FALSE, FALSE, FALSE, TRUE), U(ARENA_W), U(60), FALSE, FALSE)
\* the bot aims a unit to the right of its target
ArenaJitter == << [x |-> U(1), y |-> 0] >>

InitArena ==
    /\ room = createRoom(HumanId(1), Options(3, TRUE, 1, "normal", 2), ArenaPickups,
                         1, << 1 >>)
    /\ clock = T0
    /\ last = [op |-> "create", by |-> HumanId(1), ok |-> TRUE, from |-> "lobby"]
    /\ used = {}

\* the host fires (and asks for its item) from the start and sends the
\* next input within two ticks and another after the stall, when it also
\* confirms the strike it has armed; it starts a match during the setup or
\* right after a restart
NextArena ==
    \/ RoomJoin(HumanId(2), 1, << 1 >>) /\ Within(0)
    \/ PlayerInput(HumanId(1), Fire(1)) /\ Within(0)
    \/ /\ HumanId(1) \in DOMAIN room.latestInputs
       /\ PlayerInput(HumanId(1), Fire(2))
       /\ Within(2 * ArenaSetup)
    \/ /\ clock >= T0 + ArenaStall * TICK_MS
       /\ PlayerInput(HumanId(1), Fire(3))
       /\ Within(ArenaStall * TICK_MS + 2 * ArenaSetup)
    \/ /\ clock >= T0 + ArenaStall * TICK_MS
       /\ HumanId(1) \in DOMAIN room.pendingStrikes
       /\ StrikeConfirm(HumanId(1), U(60), U(60), 0)
    \/ PlayerInput(HumanId(2), WalkRight) /\ Within(0)
    \/ \E spawns \in SpawnDraws(Len(room.players), {1}) :
          /\ MatchStart(HumanId(1), 0, spawns)
          /\ Within(ArenaSetup) \/ last.op = "restart"
    \/ \E spawns \in SpawnDraws(Len(room.players), {1}) :
          /\ MatchRestart(HumanId(1), spawns)
          /\ (clock - T0) % ArenaRestartEvery = 0
    \/ Tick(TICK_MS, ArenaJitter, << 1 >>) /\ Within(ArenaWindow)
    \/ /\ Tick(ArenaStall * TICK_MS, ArenaJitter, << 1 >>)
       /\ Within(ArenaStall * TICK_MS + ArenaSetup)
    \/ /\ clock >= T0 + ArenaStall * TICK_MS
       /\ Tick(TICK_MS, ArenaJitter, << 1 >>)
       /\ Within(ArenaHorizon)
    \/ \E i \in 1..Len(room.timers) : RespawnTimer(i, 1) /\ Within(ArenaWindow)

SpecArena == InitArena /\ [][NextArena]_vars

\* ------------------------------------------------------------------------
\* Properties of the skirmish
\* ------------------------------------------------------------------------
\* the spawn draws the properties try on a reset
AltSpawns == {2, 3}
AtSpawnPoint(p) ==
    \E n \in 1..Len(SPAWN_POINTS) : p.x = SPAWN_POINTS[n].x /\ p.y = SPAWN_POINTS[n].y
NothingInFlight(r) ==
    /\ r.bullets = << >> /\ r.zones = << >> /\ r.strikes = << >> /\ r.portals = << >>
    /\ r.echoes = << >>
    /\ \A i \in 1..Len(r.players) : ~r.players[i].isEcho
NothingPending(r) == r.pendingStrikes = EmptyMap /\ r.pendingPortals = EmptyMap
Respawned(r, p) ==
    /\ p.alive /\ p.hp = r.maxHp /\ p.kills = 0 /\ p.deaths = 0
    /\ p.heldItem = "none" /\ AtSpawnPoint(p)
FreshMatch(r) ==
    /\ r.match.phase = "playing"
    /\ NothingInFlight(r) /\ NothingPending(r)
    /\ \A i \in 1..Len(r.players) : Respawned(r, r.players[i]) /\ r.players[i].shieldHp = 0

\* C4: right after startMatch, applied to any reachable state and as the host's
\* accepted match:start applies it, the phase is playing, there are no
\* projectiles, zones, strikes, pending strikes, pending portals, portals or
\* echoes, and every human and bot is alive with hp = the configured maxHp,
\* no held item, no shield, kills = deaths = 0, at one of the spawn points.
C4_StartResets ==
    [][/\ \A spawns \in SpawnDraws(Len(room.players), AltSpawns) :
             FreshMatch(startMatch(room, clock', spawns))
       /\ Accepted("start") => FreshMatch(room')]_vars

\* a match started after a lobby tick in which the three entities picked up
\* the items lying at their spawn point
C4_Witness ==
    /\ last.op = "start" /\ last.ok /\ Phase = "playing"
    /\ Len(room.players) = 3
    /\ Len(room.pickups) = PICKUP_COUNT - 3
    /\ \A i \in 1..Len(room.players) : room.players[i].heldItem = "none"

Unplaced(r) ==
    [r EXCEPT !.players = [i \in 1..Len(r.players) |-> [r.players[i] EXCEPT !.x = 0, !.y = 0]]]
LobbyReset(r) ==
    /\ r.match.phase = "lobby"
    /\ r.match.startedAtMs = Undefined /\ r.match.endsAtMs = Undefined
    /\ NothingInFlight(r)
    /\ \A i \in 1..Len(r.players) : Respawned(r, r.players[i])
\* r is the room after one restartMatch: it is reset, and another
\* restartMatch changes nothing but the spawn points chosen
RestartedOnce(r) ==
    /\ LobbyReset(r)
    /\ \A again \in SpawnDraws(Len(r.players), AltSpawns) :
          Unplaced(restartMatch(r, again)) = Unplaced(r)

\* C5: restartMatch, applied to any reachable state and as the host's accepted
\* match:restart applies it, leaves the phase lobby, the match timestamps
\* cleared, every entity alive with hp = maxHp, kills = deaths = 0 and no
\* held item at a spawn point, and no projectiles, zones, strikes, portals
\* or echoes; applying it again changes nothing but the spawn points.
C5_RestartIdempotent ==
    [][/\ \A spawns \in SpawnDraws(Len(room.players), {1}) :
             RestartedOnce(restartMatch(room, spawns))
       /\ Accepted("restart") => RestartedOnce(room')]_vars

\* a restart during a match in which bullets were fired, an echo was
\* spawned and a player is waiting for its respawn
C5_Witness ==
    /\ last.op = "restart" /\ last.ok /\ last.from = "playing"
    /\ room.timers # << >>
    /\ room.bulletSeq > 0 /\ room.echoSeq > 0

\* the entities both rooms have
Staying(r, s) == {i \in 1..Len(r.players) : Has(s.players, r.players[i].id)}
Health(p) == << p.hp, p.alive, p.kills, p.deaths >>
HasEvent(r, type) == \E i \in 1..Len(r.events) : r.events[i].type = type
\* the position the latest input of an alive human moves it to in a tick at
\* nowMs
MovedBy(r, p, nowMs) ==
    applyMovement(p, r.latestInputs[p.id].keys, Max(1, nowMs - r.lastTickMs),
                  getMoveMultiplier(r, p.id, p, nowMs, FALSE))
Steered(r) ==
    {i \in 1..Len(r.players) :
        /\ ~r.players[i].isEcho /\ ~r.players[i].isBot /\ r.players[i].alive
        /\ r.players[i].id \in DOMAIN r.latestInputs}

\* C6: a tick that finds the phase lobby or ended creates no projectile,
\* activates no ability, consumes no held item, detonates no strike and
\* changes no entity's hp, alive flag, kills or deaths; it still moves every
\* alive human as its latest input says (portals aside).
C6_NonPlayingTick ==
    [][last'.op = "tick" /\ Phase # "playing" =>
         /\ IdSet(room'.bullets) \subseteq IdSet(room.bullets)
         /\ room'.bulletSeq = room.bulletSeq
         /\ room'.echoSeq = room.echoSeq /\ room'.zoneSeq = room.zoneSeq
         /\ room'.novaSeq = room.novaSeq /\ room'.portalSeq = room.portalSeq
         /\ room'.strikeSeq = room.strikeSeq
         /\ room'.dashUntilMs = room.dashUntilMs
         /\ room'.lastUseItemSeq = room.lastUseItemSeq
         /\ DOMAIN room'.pendingStrikes \subseteq DOMAIN room.pendingStrikes
         /\ DOMAIN room'.pendingPortals \subseteq DOMAIN room.pendingPortals
         /\ room'.strikes = room.strikes
         /\ ~HasEvent(room', "strike_boom") /\ ~HasEvent(room', "hit")
         /\ ~HasEvent(room', "death")
         /\ \A i \in Staying(room, room') :
               /\ Health(PlayerOf(room', room.players[i].id)) = Health(room.players[i])
               /\ PlayerOf(room', room.players[i].id).shieldHp <= room.players[i].shieldHp
               /\ room.players[i].heldItem # "none" =>
                     PlayerOf(room', room.players[i].id).heldItem = room.players[i].heldItem
         /\ room.portals = << >> =>
               \A i \in Steered(room) :
                  /\ PlayerOf(room', room.players[i].id).x
                        = MovedBy(room, room.players[i], clock').x
                  /\ PlayerOf(room', room.players[i].id).y
                        = MovedBy(room, room.players[i], clock').y]_vars

\* a tick after the match has ended, with bullets in flight, a strike whose
\* time has come and the host still asking to fire and to use its item
C6_Witness ==
    /\ last.op = "tick" /\ last.from = "ended"
    /\ room.bullets # << >>
    /\ room.strikes # << >> /\ clock > room.strikes[1].explodeAtMs
    /\ room.latestInputs[HumanId(1)].shoot /\ room.latestInputs[HumanId(1)].useItem

DeathsOf(r, id) ==
    Cardinality({i \in 1..Len(r.events) : r.events[i].type = "death" /\ r.events[i].id = id})
KillsBy(r, id) ==
    Cardinality({i \in 1..Len(r.events) :
                    r.events[i].type = "death" /\ r.events[i].byRootId = id})
HitOn(r, id) ==
    \E i \in 1..Len(r.events) : r.events[i].type = "hit" /\ r.events[i].targetId = id
Revives == {"respawn", "start", "restart"}

\* C7: when a projectile hit brings an entity's hp to 0, the entity's alive
\* flag goes from true to false, its deaths grow by one, exactly one death
\* event is emitted for it, and the kills of the root that event names grow
\* by one for each death it is credited with; while the entity is dead no
\* step but a respawn or a reset changes its hp, alive flag or deaths, and
\* no tick reports a hit on it or its death.
C7_ProjectileDeath ==
    [][/\ \A i \in 1..Len(room.players) :
             /\ last'.op = "tick" /\ room.players[i].alive
                   /\ DeathsOf(room', room.players[i].id) > 0 =>
                   /\ DeathsOf(room', room.players[i].id) = 1
                   /\ ~room.players[i].isEcho =>
                         /\ Has(room'.players, room.players[i].id)
                         /\ ~PlayerOf(room', room.players[i].id).alive
                         /\ PlayerOf(room', room.players[i].id).hp = 0
                         /\ PlayerOf(room', room.players[i].id).deaths
                               = room.players[i].deaths + 1
             /\ room.players[i].alive /\ Has(room'.players, room.players[i].id)
                   /\ ~PlayerOf(room', room.players[i].id).alive =>
                   last'.op = "tick" /\ DeathsOf(room', room.players[i].id) = 1
             /\ ~room.players[i].alive /\ Has(room'.players, room.players[i].id)
                   /\ last'.op \notin Revives =>
                   /\ Health(PlayerOf(room', room.players[i].id)) = Health(room.players[i])
                   /\ last'.op = "tick" =>
                         /\ DeathsOf(room', room.players[i].id) = 0
                         /\ ~HitOn(room', room.players[i].id)
       /\ last'.op = "tick" =>
             \A i \in Staying(room, room') :
                PlayerOf(room', room.players[i].id).kills
                   = room.players[i].kills + KillsBy(room', room.players[i].id)]_vars

\* the tick in which the second player, hit before, dies of a bullet whose
\* root is the host, while the host's echo is in the room
C7_Witness ==
    /\ last.op = "tick" /\ Phase = "playing"
    /\ Has(room.players, HumanId(2)) /\ ~PlayerOf(room, HumanId(2)).alive
    /\ PlayerOf(room, HumanId(2)).hp = 0
    /\ KillsBy(room, HumanId(1)) = 1 /\ DeathsOf(room, HumanId(2)) = 1
    /\ PlayerOf(room, HumanId(1)).kills >= 1
    /\ room.echoes # << >>

\* ------------------------------------------------------------------------
\* Abilities: the host and a second player at one spawn point where five
\* different pickups lie; they ask for their items during the first ticks,
\* confirm the two-step abilities at any moment, and the ticks go on, one
\* second apart, past the end of the targeting windows
\* ------------------------------------------------------------------------
\* regular ticks, and the host's inputs, are considered up to StrikeWindow
\* ms after the room's creation ...
StrikeWindow == 250
\* ... and ticks one second apart up to StrikeHorizon ms after it
StrikeHorizon == 6250
\* the largest input sequence number a client sends
StrikeSeqs == 2

StrikePickups ==
    AtSpawn(1, << "echo", "shield", "orbital_strike", "linked_portals", "time_bubble" >>)
      \o SubSeq(FarPickups, 1, 1)
StrikePlayers == Humans(2)
StrikeHps == {2, 3}
\* the target points of the confirms: the spawn point, a point exactly
\* STRIKE_RADIUS from it and one a tenth of a unit further
StrikeTargets ==
    {[x |-> U(60), y |-> U(60)], [x |-> U(60 + STRIKE_RADIUS), y |-> U(60)],
     [x |-> U(60 + STRIKE_RADIUS) + 1, y |-> U(60)]}
UseItem(seq) == Input(seq, NoKeys, U(600), U(60), FALSE, TRUE)
Holding(r, p) == Has(r.players, p) /\ PlayerOf(r, p).heldItem # "none"

InitStrike ==
    /\ \E maxHp \in StrikeHps :
          room = createRoom(HumanId(1), Options(2, FALSE, 0, "normal", maxHp),
                            StrikePickups, 1, << >>)
    /\ clock = T0
    /\ last = [op |-> "create", by |-> HumanId(1), ok |-> TRUE, from |-> "lobby"]
    /\ used = {}

\* the host starts the match once the second player is in; after a tick,
\* the host, if it holds an item, may ask for it with a sequence number
\* other than that of its latest input; the second player may ask for its
\* first item when it gets it, before the host does; the two-step abilities
\* are confirmed at any tick
NextStrike ==
    \/ RoomJoin(HumanId(2), 1, << >>) /\ Within(0)
    \/ \E spawns \in SpawnDraws(Len(room.players), {1}) :
          /\ isFull(room)
          /\ MatchStart(HumanId(1), 0, spawns)
          /\ Within(0)
    \/ \E seq \in 1..StrikeSeqs :
          /\ last.op = "tick" \/ (last.op = "input" /\ last.by = HumanId(2))
          /\ Holding(room, HumanId(1))
          /\ HumanId(1) \in DOMAIN room.latestInputs
                => room.latestInputs[HumanId(1)].seq # seq
          /\ PlayerInput(HumanId(1), UseItem(seq))
          /\ Within(StrikeWindow)
    \/ /\ last.op = "tick"
       /\ Holding(room, HumanId(2))
       /\ PlayerInput(HumanId(2), UseItem(1))
       /\ Within(TICK_MS)
    \/ \E p \in StrikePlayers, t \in StrikeTargets :
          /\ p \in DOMAIN room.pendingStrikes
          /\ StrikeConfirm(p, t.x, t.y, 0)
    \/ \E p \in StrikePlayers :
          /\ p \in DOMAIN room.pendingPortals
          /\ PortalPlaceB(p, U(300), U(60), 0)
    \/ Tick(TICK_MS, << >>, << >>) /\ Within(StrikeWindow)
    \/ /\ room.lastTickMs + TICK_MS > T0 + StrikeWindow
       /\ Tick(20 * TICK_MS, << >>, << >>)
       /\ Within(StrikeHorizon)
    \/ \E i \in 1..Len(room.timers) : RespawnTimer(i, 1) /\ Within(StrikeHorizon)

SpecStrike == InitStrike /\ [][NextStrike]_vars

\* ------------------------------------------------------------------------
\* Properties of the abilities
\* ------------------------------------------------------------------------
\* the tick of this step consults Room.canUseItem for p: it finds the match
\* playing and p an alive human whose latest input asks for its item
Asked(p) ==
    /\ last'.op = "tick" /\ Phase = "playing"
    /\ Has(room.players, p) /\ ~skipsHuman(room, p)
    /\ room.latestInputs[p].useItem
AskedSeq(p) == room.latestInputs[p].seq
\* the sequence number asked with is the one lastUseItemSeq holds
Stale(p) == p \in DOMAIN room.lastUseItemSeq /\ room.lastUseItemSeq[p] = AskedSeq(p)
\* p's strike targeting window is open at nowMs
Targeting(r, p, nowMs) ==
    /\ p \in DOMAIN r.pendingStrikes
    /\ r.pendingStrikes[p].active
    /\ nowMs <= r.pendingStrikes[p].expiresAtMs
\* the step activates the item p holds: the echo, the bubble, the shield or
\* the targeting window that starts at clock'
Activated(p) ==
    LET item == PlayerOf(room, p).heldItem
    IN  \/ /\ item = "echo"
           /\ \E i \in 1..Len(room'.echoes) :
                 /\ room'.echoes[i].ownerId = p
                 /\ room'.echoes[i].expiresAtMs = clock' + ECHO_LIFETIME_MS
        \/ /\ item = "time_bubble"
           /\ \E i \in 1..Len(room'.zones) :
                 room'.zones[i].expiresAtMs = clock' + TIME_BUBBLE_LIFETIME_MS
        \/ /\ item = "shield"
           /\ MapGet(room'.shieldUntilMs, p, 0) = clock' + SHIELD_DURATION_MS
        \/ /\ item = "orbital_strike"
           /\ p \in DOMAIN room'.pendingStrikes
           /\ room'.pendingStrikes[p].expiresAtMs = clock' + STRIKE_TARGET_WINDOW_MS
        \/ /\ item = "linked_portals"
           /\ p \in DOMAIN room'.pendingPortals
           /\ room'.pendingPortals[p].expiresAtMs = clock' + PORTAL_PENDING_MS
\* activating the item p holds would have an effect
Ready(p) ==
    LET item == PlayerOf(room, p).heldItem
    IN  /\ item \in {"echo", "time_bubble", "shield", "orbital_strike", "linked_portals"}
        /\ item = "orbital_strike" => ~Targeting(room, p, clock')
        /\ item = "linked_portals" => p \notin DOMAIN room.pendingPortals

\* C8 as stated: once a tick has processed an input of a player that asks
\* for its item with sequence number s, no later tick activates an ability
\* of that player on an input with the same s, whatever was processed in
\* between.
C8_OncePerSeq ==
    [][\A p \in StrikePlayers :
          Asked(p) /\ << p, AskedSeq(p) >> \in used => ~Activated(p)]_vars

\* C8: ability activation is triggered by a change of the sequence number;
\* a tick that processes an input asking for the item records its sequence
\* number, activates nothing when that number is the one recorded last, and
\* activates the held item when it is any other number, one recorded
\* earlier included.
C8_EdgeTriggered ==
    [][\A p \in StrikePlayers :
          Asked(p) =>
             /\ room'.lastUseItemSeq[p] = AskedSeq(p)
             /\ Stale(p) => ~Activated(p)
             /\ ~Stale(p) /\ Ready(p) => Activated(p)]_vars

\* a third item of the host is activated, by a tick that found only two
\* sequence numbers ever sent: the echo is out, the strike is committed and
\* the portal placement opens
C8_Witness ==
    /\ last.op = "tick"
    /\ Cardinality({u \in used : u[1] = HumanId(1)}) = StrikeSeqs
    /\ \E i \in 1..Len(room.echoes) : room.echoes[i].ownerId = HumanId(1)
    /\ \E i \in 1..Len(room.strikes) : room.strikes[i].byId = HumanId(1)
    /\ HumanId(1) \in DOMAIN room.pendingPortals
    /\ room.pendingPortals[HumanId(1)].expiresAtMs = clock + PORTAL_PENDING_MS

\* the ids of the strikes and of the portals of a room
StrikeIds(r) == {r.strikes[i].id : i \in 1..Len(r.strikes)}
PortalIds(r) == {r.portals[i].id : i \in 1..Len(r.portals)}
\* the tick of this step finds p's strike targeting (portal placement)
\* window closed: no confirm has come and the window's end is past
StrikeLapsed(p) ==
    /\ last'.op = "tick"
    /\ p \in DOMAIN room.pendingStrikes
    /\ clock' > room.pendingStrikes[p].expiresAtMs
    /\ Has(room.players, p)
    /\ ~(Asked(p) /\ ~Stale(p))
PortalLapsed(p) ==
    /\ last'.op = "tick"
    /\ p \in DOMAIN room.pendingPortals
    /\ clock' > room.pendingPortals[p].expiresAtMs
    /\ Has(room.players, p)

\* C9: when a tick finds that the 5000 ms window of a player's strike
\* targeting or portal-B placement has expired without a confirm, the
\* pending targeting is discarded, no strike and no portal is created, and
\* the player no longer holds the item (its held item is none).
C9_ExpiredDropped ==
    [][\A p \in StrikePlayers :
          /\ StrikeLapsed(p) =>
                /\ p \notin DOMAIN room'.pendingStrikes
                /\ StrikeIds(room') \subseteq StrikeIds(room)
                /\ PlayerOf(room', p).heldItem # "orbital_strike"
          /\ PortalLapsed(p) =>
                /\ p \notin DOMAIN room'.pendingPortals
                /\ PortalIds(room') \subseteq PortalIds(room)
                /\ PlayerOf(room', p).heldItem # "linked_portals"]_vars

\* what of C9 the code does: the pending targeting is discarded and nothing
\* is created, while the player goes on holding the item
C9_ExpiredKeepsItem ==
    [][\A p \in StrikePlayers :
          /\ StrikeLapsed(p) =>
                /\ p \notin DOMAIN room'.pendingStrikes
                /\ StrikeIds(room') \subseteq StrikeIds(room)
                /\ PlayerOf(room', p).heldItem = PlayerOf(room, p).heldItem
          /\ PortalLapsed(p) =>
                /\ p \notin DOMAIN room'.pendingPortals
                /\ PortalIds(room') \subseteq PortalIds(room)
                /\ PlayerOf(room', p).heldItem = PlayerOf(room, p).heldItem]_vars

\* the host's strike targeting window has lapsed and the host still holds
\* the item: it got the orbital strike by using up its first item, a second
\* sequence number was processed since, which opened the window, and no
\* strike was committed
C9_Witness ==
    /\ last.op = "tick"
    /\ clock > T0 + STRIKE_TARGET_WINDOW_MS
    /\ PlayerOf(room, HumanId(1)).heldItem = "orbital_strike"
    /\ Cardinality({u \in used : u[1] = HumanId(1)}) = StrikeSeqs
    /\ HumanId(1) \notin DOMAIN room.pendingStrikes
    /\ room.strikeSeq = 0

\* the room as Room.updateStrikes finds it in a tick at nowMs: after the
\* humans' inputs, the bots, the pending windows, the shields, the pickups,
\* the zones, the echoes and the portals
Detonating(r, nowMs, dtMs) ==
    worldUpdates(
      entityUpdates(humansFrom(beginTick(r, nowMs), Ids(r.players), 1, nowMs, dtMs),
                    nowMs, dtMs, TRUE, << >>),
      nowMs, dtMs, TRUE)
Booms(r, id) ==
    Cardinality({i \in 1..Len(r.events) :
                    r.events[i].type = "strike_boom" /\ r.events[i].id = id})
Vital(p) == << p.hp, p.alive, p.deaths >>
\* the tick of this step leaves the entity as it was
Untouched(t) ==
    /\ Has(room'.players, t.id)
    /\ Vital(PlayerOf(room', t.id)) = Vital(t)
    /\ ~HitOn(room', t.id)
\* the tick of this step deals the damage to the entity: its hp goes down
\* by it, or, when that leaves none, the entity dies (an echo is removed)
Hurt(t, damage) ==
    IF t.hp > damage
    THEN /\ Has(room'.players, t.id)
         /\ Vital(PlayerOf(room', t.id)) = << t.hp - damage, TRUE, t.deaths >>
         /\ HitOn(room', t.id)
    ELSE /\ DeathsOf(room', t.id) = 1
         /\ IF t.isEcho THEN ~Has(room'.players, t.id)
            ELSE /\ Has(room'.players, t.id)
                 /\ ~PlayerOf(room', t.id).alive
                 /\ PlayerOf(room', t.id).deaths = t.deaths + 1
\* the shield of the entity takes the strike: a charge is gone, the entity
\* is as it was
Shielded(d, t) ==
    /\ Untouched(t)
    /\ \E i \in 1..Len(room'.events) :
          /\ room'.events[i].type = "shield_hit"
          /\ room'.events[i].id = t.id
          /\ room'.events[i].hpLeft = PlayerOf(d, t.id).shieldHp - 1
\* the entities a strike spares, in the room d it detonates in: none
NoneSpared(d, strike, t) == FALSE
\* ... the entities behind a shield and the caster's own echoes
SomeSpared(d, strike, t) ==
    \/ ~t.isEcho /\ isShieldActive(d, t.id, clock')
    \/ t.isEcho /\ t.ownerId = strike.byId

\* activation during playing arms the targeting and leaves the held item
StrikeArms ==
    \A p \in StrikePlayers :
       /\ Asked(p) /\ ~Stale(p)
       /\ PlayerOf(room, p).heldItem = "orbital_strike"
       /\ ~Targeting(room, p, clock')
       => /\ Targeting(room', p, clock')
          /\ room'.pendingStrikes[p].expiresAtMs = clock' + STRIKE_TARGET_WINDOW_MS
          /\ PlayerOf(room', p).heldItem = "orbital_strike"
          /\ StrikeIds(room') \subseteq StrikeIds(room)
\* a confirm within the window, by an alive player that holds the item,
\* commits exactly one strike at a target point, due STRIKE_MARK_MS later,
\* and clears the held item
StrikeCommits ==
    \A p \in StrikePlayers :
       /\ last'.op = "strike_confirm" /\ last'.by = p
       /\ Phase = "playing"
       /\ PlayerOf(room, p).alive
       /\ Targeting(room, p, clock')
       /\ PlayerOf(room, p).heldItem = "orbital_strike"
       => /\ Len(room'.strikes) = Len(room.strikes) + 1
          /\ SubSeq(room'.strikes, 1, Len(room.strikes)) = room.strikes
          /\ LET strike == room'.strikes[Len(room'.strikes)]
             IN  /\ strike.id \notin StrikeIds(room)
                 /\ [x |-> strike.x, y |-> strike.y] \in StrikeTargets
                 /\ strike.explodeAtMs = clock' + STRIKE_MARK_MS
                 /\ strike.byId = p
          /\ PlayerOf(room', p).heldItem = "none"
          /\ p \notin DOMAIN room'.pendingStrikes
          /\ last'.ok
\* a playing tick leaves a strike that is not due, and resolves the one that
\* is: the strike is gone, one strike_boom is emitted for it, and among the
\* alive entities those within STRIKE_RADIUS of the target point, the
\* spared aside, take STRIKE_DAMAGE and the others nothing
StrikeResolves(Spared(_, _, _)) ==
    last'.op = "tick" /\ Phase = "playing" =>
       \A d \in {Detonating(room, clock', Max(1, clock' - room.lastTickMs))} :
       \A k \in 1..Len(room.strikes) :
          LET strike == room.strikes[k]
          IN  IF clock' < strike.explodeAtMs
              THEN strike.id \in StrikeIds(room') /\ Booms(room', strike.id) = 0
              ELSE /\ strike.id \notin StrikeIds(room')
                   /\ Booms(room', strike.id) = 1
                   /\ \A i \in 1..Len(d.players) :
                         LET t == d.players[i]
                         IN  t.alive =>
                                IF distanceSq(t.x, t.y, strike.x, strike.y)
                                      > U(STRIKE_RADIUS) * U(STRIKE_RADIUS)
                                THEN Untouched(t)
                                ELSE IF ~Spared(d, strike, t) THEN Hurt(t, STRIKE_DAMAGE)
                                ELSE IF t.isEcho THEN Untouched(t)
                                ELSE Shielded(d, t)
\* no strike_boom is emitted but for a strike that is due
BoomsDue ==
    last'.op = "tick" =>
       \A i \in 1..Len(room'.events) :
          room'.events[i].type = "strike_boom" =>
             \E k \in 1..Len(room.strikes) :
                /\ room.strikes[k].id = room'.events[i].id
                /\ clock' >= room.strikes[k].explodeAtMs

EchoHorizon == 1600
\* the host changes its keys one tick after a multiple of EchoEvery ms
EchoEvery == 300

EchoPickups == AtSpawn(1, << "echo" >>) \o SubSeq(FarPickups, 1, 5)
EchoKeys ==
    {NoKeys, Keys(FALSE, FALSE, FALSE, TRUE), Keys(FALSE, TRUE, FALSE, FALSE)}
Steer(keys) == Input(1, keys, U(600), U(60), FALSE, TRUE)

InitEcho ==
    /\ room = createRoom(HumanId(1), Options(2, FALSE, 0, "normal", 3), EchoPickups,
                         1, << >>)
    /\ clock = T0
    /\ last = [op |-> "create", by |-> HumanId(1), ok |-> TRUE, from |-> "lobby"]
    /\ used = {}

NextEcho ==
    \/ MatchStart(HumanId(1), 0, << 1 >>) /\ Within(0)
    \/ \E keys \in EchoKeys :
          /\ last.op = "tick" /\ Phase = "playing"
          /\ (clock - T0) % EchoEvery = TICK_MS
          /\ HumanId(1) \in DOMAIN room.latestInputs
                => room.latestInputs[HumanId(1)].keys # keys
          /\ PlayerInput(HumanId(1), Steer(keys))
    \/ Tick(TICK_MS, << >>, << >>) /\ Within(EchoHorizon)

SpecEcho == InitEcho /\ [][NextEcho]_vars

\* ------------------------------------------------------------------------
\* Properties of the echo
\* ------------------------------------------------------------------------
\* the entries of a buffer that are at least ECHO_DELAY_MS old at nowMs
Replayable(history, nowMs) ==
    {k \in 1..Len(history) : history[k].tMs <= nowMs - ECHO_DELAY_MS}
Latest(history, ks) == CHOOSE k \in ks : \A j \in ks : history[j].tMs <= history[k].tMs
At(p) == << p.x, p.y >>

\* C11: in every tick at time T, an echo that is not expiring moves by the
\* owner's latest buffered input whose timestamp is at most T - 900 ms, and
\* stays where it is when the owner's buffer holds no such entry.
C11_EchoReplay ==
    [][last'.op = "tick" =>
          \A i \in 1..Len(room.echoes) :
             LET meta == room.echoes[i]
                 echo == PlayerOf(room, meta.id)
                 history == MapGet(room'.inputBuffer, meta.ownerId, << >>)
                 ks == Replayable(history, clock')
             IN  Has(room.players, meta.id) /\ clock' < meta.expiresAtMs =>
                    /\ Has(room'.players, meta.id)
                    /\ At(PlayerOf(room', meta.id)) =
                          IF ks = {} THEN At(echo)
                          ELSE At(applyMovement(echo, history[Latest(history, ks)].keys,
                                                Max(1, clock' - room.lastTickMs),
                                                getTimeBubbleMoveMultAt(room, echo.x, echo.y)))]_vars

\* an echo has replayed two different inputs of its owner, a move to the
\* right and a move down, while the owner's latest input was another one
C11_Witness ==
    /\ last.op = "tick"
    /\ \E i \in 1..Len(room.echoes) :
          LET echo == PlayerOf(room, room.echoes[i].id)
              history == room.inputBuffer[room.echoes[i].ownerId]
              ks == Replayable(history, clock)
          IN  /\ echo.x > U(68) /\ echo.y > U(68)
              /\ ks # {}
              /\ history[Latest(history, ks)].keys # history[Len(history)].keys
              /\ history[Latest(history, ks)].keys # NoKeys
              /\ \E j \in ks : history[j].keys # history[Latest(history, ks)].keys

\* ------------------------------------------------------------------------
\* A shield under fire: the host takes the shield pickup of its spawn point,
\* walks a few ticks to the right, halts and asks for the shield; the
\* second player stays on the spawn point and shoots, at the host or away
\* from it
\* ------------------------------------------------------------------------
\* no tick is considered after T0 + ShieldHorizon
ShieldHorizon == 5900
\* the shooter chooses its aim five ticks after a multiple of ShieldEvery ms
ShieldEvery == 400
\* ... until T0 + ShieldWindow, and again once the shield has run out
ShieldWindow == 1100
\* the host halts after HaltTicks ticks
HaltTicks == 3

ShieldPickups == AtSpawn(1, << "shield" >>) \o SubSeq(FarPickups, 1, 5)
Walk == Input(1, Keys(FALSE, FALSE, FALSE, TRUE), U(1200), U(60), FALSE, TRUE)
Halt == Input(2, NoKeys, U(1200), U(60), FALSE, TRUE)
ShooterAims == {[x |-> U(1200), y |-> U(60)], [x |-> U(60), y |-> U(800)]}
Shoot(aim) == Input(1, NoKeys, aim.x, aim.y, TRUE, FALSE)

InitShield ==
    /\ room = createRoom(HumanId(1), Options(2, FALSE, 0, "normal", 3), ShieldPickups,
                         1, << >>)
    /\ clock = T0
    /\ last = [op |-> "create", by |-> HumanId(1), ok |-> TRUE, from |-> "lobby"]
    /\ used = {}

NextShield ==
    \/ RoomJoin(HumanId(2), 1, << >>) /\ Within(0)
    \/ /\ isFull(room)
       /\ MatchStart(HumanId(1), 0, << 1, 1 >>)
       /\ Within(0)
    \/ /\ last.op = "start"
       /\ PlayerInput(HumanId(1), Walk)
    \/ /\ last.op = "tick" /\ clock = T0 + HaltTicks * TICK_MS
       /\ PlayerInput(HumanId(1), Halt)
    \/ \E aim \in ShooterAims :
          /\ last.op = "tick" /\ Phase = "playing"
          /\ (clock - T0) % ShieldEvery = 5 * TICK_MS
          /\ clock <= T0 + ShieldWindow \/ clock >= T0 + SHIELD_DURATION_MS
          /\ HumanId(2) \in DOMAIN room.latestInputs
                => room.latestInputs[HumanId(2)].aim # aim
          /\ PlayerInput(HumanId(2), Shoot(aim))
    \/ /\ Phase = "playing" /\ last.op # "start"
       /\ Tick(TICK_MS, << >>, << >>)
       /\ Within(ShieldHorizon)
    \/ \E i \in 1..Len(room.timers) :
          /\ room.timers[i].dueMs <= clock
          /\ RespawnTimer(i, 1)

SpecShield == InitShield /\ [][NextShield]_vars

\* ------------------------------------------------------------------------
\* Properties of the shield
\* ------------------------------------------------------------------------
\* the engine's state in the tick of this step once the projectiles have
\* moved, before any of them is tested against the entities
InFlight(r, nowMs, dtMs) ==
    integrateFrom(engineStart(updateStrikes(Detonating(r, nowMs, dtMs), nowMs)), 1, dtMs)
\* the projectiles of w, not slashes, that hit the entity: they are still in
\* flight, they are not the entity's own, and their circle overlaps its body
Reaching(w, id) ==
    {i \in 1..Len(w.r.bullets) :
        LET bullet == w.r.bullets[i]
            player == PlayerOf(w.r, id)
            hitRadius == U(PLAYER_RADIUS) + BulletRadius(bullet)
        IN  /\ bullet.id \notin w.removeIds
            /\ ~bullet.isSlash
            /\ bullet.bouncesLeft # Undefined \/ bullet.ownerRootId # id
            /\ distanceSq(bullet.x, bullet.y, player.x, player.y) <= hitRadius * hitRadius}
ShieldCharges(r, id) == PlayerOf(r, id).shieldHp

\* C12: while a player's shield is active, the projectile hits on the
\* player, up to the number of charges, do not reduce its hp: each of them
\* removes the projectile and takes exactly one charge, and nothing else
\* takes a charge; once the duration is over the shield has no charge left.
C12_ShieldAbsorbsHits ==
    [][last'.op = "tick" /\ Phase = "playing" =>
          \A w \in {InFlight(room, clock', Max(1, clock' - room.lastTickMs))} :
          \A id \in Humans(2) :
             /\ isShieldActive(w.r, id, clock') =>
                   LET hits == Reaching(w, id)
                       absorbed == Min(Cardinality(hits), ShieldCharges(w.r, id))
                   IN  /\ ShieldCharges(room', id) = ShieldCharges(w.r, id) - absorbed
                       /\ Cardinality(hits) <= ShieldCharges(w.r, id) =>
                             /\ PlayerOf(room', id).hp = PlayerOf(w.r, id).hp
                             /\ \A i \in hits : ~Has(room'.bullets, w.r.bullets[i].id)
             /\ Has(room.players, id) /\ ShieldCharges(room, id) > 0
                   /\ clock' >= MapGet(room.shieldUntilMs, id, 0)
                   => ShieldCharges(room', id) = 0]_vars

\* a tick has taken a charge of the host's shield although no projectile
\* hit the host in it
C12_Witness ==
    /\ last.op = "tick"
    /\ HasEvent(room, "shield_hit")
    /\ Has(room.players, HumanId(1))
    /\ HumanId(2) \in DOMAIN room.latestInputs
    /\ room.latestInputs[HumanId(2)].aim.y = U(800)
    /\ ShieldCharges(room, HumanId(1)) = 1

\* ------------------------------------------------------------------------
\* A phase dash under a beam and a strike: on the spawn point of the two
\* players lie a rift sniper and an orbital strike, which the host takes,
\* and two phase dashes, which the second player takes
\* ------------------------------------------------------------------------
\* no tick is considered after T0 + DashHorizon
DashHorizon == 1800
\* the players send their inputs one tick after a multiple of DashEvery ms
DashEvery == 200
\* the sequence numbers the players use
DashSeqs == 3

DashPickups ==
    AtSpawn(1, << "rift_sniper", "phase_dash", "orbital_strike", "phase_dash" >>)
       \o SubSeq(FarPickups, 1, 2)

InitDash ==
    /\ room = createRoom(HumanId(1), Options(2, FALSE, 0, "normal", 3), DashPickups,
                         1, << >>)
    /\ clock = T0
    /\ last = [op |-> "create", by |-> HumanId(1), ok |-> TRUE, from |-> "lobby"]
    /\ used = {}

NextDash ==
    \/ RoomJoin(HumanId(2), 1, << >>) /\ Within(0)
    \/ /\ isFull(room)
       /\ MatchStart(HumanId(1), 0, << 1, 1 >>)
       /\ Within(0)
    \/ \E p \in Humans(2), seq \in 1..DashSeqs :
          /\ last.op = "tick" \/ (last.op = "input" /\ last.by = HumanId(1) /\ p = HumanId(2))
          /\ (clock - T0) % DashEvery = TICK_MS
          /\ Holding(room, p)
          /\ seq = IF p \in DOMAIN room.latestInputs THEN room.latestInputs[p].seq + 1 ELSE 1
          /\ PlayerInput(p, UseItem(seq))
    \/ /\ HumanId(1) \in DOMAIN room.pendingStrikes
       /\ StrikeConfirm(HumanId(1), U(60), U(60), 0)
    \/ /\ Phase = "playing" /\ HumanId(1) \notin DOMAIN room.pendingStrikes
       /\ Tick(TICK_MS, << >>, << >>)
       /\ Within(DashHorizon)
    \/ \E i \in 1..Len(room.timers) :
          /\ room.timers[i].dueMs <= clock
          /\ RespawnTimer(i, 1)

SpecDash == InitDash /\ [][NextDash]_vars

\* ------------------------------------------------------------------------
\* Properties of the phase dash
\* ------------------------------------------------------------------------
\* the entity is within PHASE_DASH_MS of a phase dash it activated, at the
\* tick of this step
Dashing(id) ==
    /\ Has(room.players, id) /\ Has(room'.players, id)
    /\ isDashing(room', id, clock')
\* the tick of this step dealt damage to the entity
Harmed(id) ==
    \/ PlayerOf(room', id).hp < PlayerOf(room, id).hp
    \/ PlayerOf(room, id).alive /\ ~PlayerOf(room', id).alive

\* C13: in a tick that is within 250 ms of an entity's phase dash, the tick
\* of the activation included, the entity's hp does not decrease and the
\* entity does not die.
C13_DashInvulnerable ==
    [][last'.op = "tick" => \A id \in Humans(2) : Dashing(id) => ~Harmed(id)]_vars

\* the beam of a rift sniper has killed the second player during its dash
C13_Witness ==
    /\ last.op = "tick"
    /\ HasEvent(room, "beam_fire")
    /\ DeathsOf(room, HumanId(2)) = 1
    /\ isDashing(room, HumanId(2), clock)
\* an orbital strike has hurt the second player during its dash
C13_StruckInDash ==
    /\ last.op = "tick"
    /\ HasEvent(room, "strike_boom")
    /\ HitOn(room, HumanId(2)) \/ DeathsOf(room, HumanId(2)) = 1
    /\ isDashing(room, HumanId(2), clock)

\* ------------------------------------------------------------------------
\* Pulse novas: three of them lie on the spawn point of the two players; the
\* host stays and fires the ones it gets, the second player walks to the
\* right and fires its own after it has halted
\* ------------------------------------------------------------------------
\* no tick is considered after T0 + NovaHorizon
NovaHorizon == 2200
\* no input is sent after T0 + NovaWindow
NovaWindow == 450

NovaPickups ==
    AtSpawn(1, << "pulse_nova", "pulse_nova", "pulse_nova" >>) \o SubSeq(FarPickups, 1, 3)
Stroll == Input(1, Keys(FALSE, FALSE, FALSE, TRUE), U(1200), U(60), FALSE, FALSE)

InitNova ==
    /\ room = createRoom(HumanId(1), Options(2, FALSE, 0, "normal", 2), NovaPickups,
                         1, << >>)
    /\ clock = T0
    /\ last = [op |-> "create", by |-> HumanId(1), ok |-> TRUE, from |-> "lobby"]
    /\ used = {}

NextNova ==
    \/ RoomJoin(HumanId(2), 1, << >>) /\ Within(0)
    \/ /\ isFull(room)
       /\ MatchStart(HumanId(1), 0, << 1, 1 >>)
       /\ Within(0)
    \/ /\ last.op = "start"
       /\ PlayerInput(HumanId(2), Stroll)
    \/ /\ last.op = "tick" /\ Holding(room, HumanId(1))
       /\ clock <= T0 + NovaWindow
       /\ PlayerInput(HumanId(1),
             UseItem(IF HumanId(1) \in DOMAIN room.latestInputs
                     THEN room.latestInputs[HumanId(1)].seq + 1 ELSE 1))
    \/ /\ last.op = "tick" /\ Holding(room, HumanId(2))
       /\ clock <= T0 + NovaWindow
       /\ room.latestInputs[HumanId(2)] = Stroll
       /\ PlayerInput(HumanId(2), Halt)
    \/ /\ Phase = "playing" /\ last.op # "start"
       /\ Tick(TICK_MS, << >>, << >>)
       /\ Within(NovaHorizon)
    \/ \E i \in 1..Len(room.timers) :
          /\ room.timers[i].dueMs <= clock
          /\ RespawnTimer(i, 1)

SpecNova == InitNova /\ [][NextNova]_vars

\* ------------------------------------------------------------------------
\* Properties of the pulse nova (all the projectiles of these behaviours are
\* nova projectiles)
\* ------------------------------------------------------------------------
\* the hits the tick of this step deals to the entity
HitsOn(r, id) ==
    Cardinality({i \in 1..Len(r.events) :
                    r.events[i].type = "hit" /\ r.events[i].targetId = id})
\* the bursts that may damage the entity in the tick of this step: the tick
\* tests them against the entity, and the last test of a projectile of the
\* burst against the entity is not less than NOVA_HIT_COOLDOWN_MS old
FreshBursts(id) ==
    {k \in DOMAIN room'.novaHitCooldown :
        /\ k[2] = id
        /\ room'.novaHitCooldown[k] = clock'
        /\ k \in DOMAIN room.novaHitCooldown
              => clock' - room.novaHitCooldown[k] >= NOVA_HIT_COOLDOWN_MS}

\* C14: in every tick an entity takes at most one hit from the projectiles
\* of one burst, and none from a burst of which a projectile was tested
\* against it (which every hit is) less than 150 ms before.
C14_OneHitPerBurst ==
    [][last'.op = "tick" =>
          \A id \in Humans(2) : HitsOn(room', id) <= Cardinality(FreshBursts(id))]_vars

\* the burst the host fired in this tick has hit the second player, once,
\* although three of its projectiles overlapped it; none of the burst is left
C14_Witness ==
    /\ last.op = "tick"
    /\ \E i \in 1..Len(room.events) :
          room.events[i].type = "nova_fire" /\ room.events[i].byId = HumanId(1)
    /\ HitsOn(room, HumanId(2)) = 1
    /\ PlayerOf(room, HumanId(2)).x = U(60) + 3 * TDiv(U(SPEED) * TICK_MS, 1000)
    /\ \A i \in 1..Len(room.bullets) : room.bullets[i].ownerRootId # HumanId(1)

\* ------------------------------------------------------------------------
\* A rift sniper: three players on one spawn point, where the host finds an
\* echo and then a rift sniper, the second player a shield and the third a
\* time bubble it never uses; the second player walks to the right and
\* halts behind its shield, the host spawns its echo and fires the beam, to
\* the right or down
\* ------------------------------------------------------------------------
\* no tick is considered after T0 + BeamHorizon
BeamHorizon == 2400
\* the inputs are sent one tick after a multiple of BeamEvery ms
BeamEvery == 100
\* no input is sent after T0 + BeamWindow
BeamWindow == 500

BeamPickups ==
    AtSpawn(1, << "echo", "shield", "time_bubble", "rift_sniper" >>)
       \o SubSeq(FarPickups, 1, 2)
Snipe(seq, aim) == Input(seq, NoKeys, aim.x, aim.y, FALSE, TRUE)

InitBeam ==
    /\ room = createRoom(HumanId(1), Options(3, FALSE, 0, "normal", 3), BeamPickups,
                         1, << >>)
    /\ clock = T0
    /\ last = [op |-> "create", by |-> HumanId(1), ok |-> TRUE, from |-> "lobby"]
    /\ used = {}

NextBeam ==
    \/ \E p \in {HumanId(2), HumanId(3)} :
          /\ p = HumanId(3) => Has(room.players, HumanId(2))
          /\ RoomJoin(p, 1, << >>)
          /\ Within(0)
    \/ /\ isFull(room) /\ Phase = "lobby"
       /\ MatchStart(HumanId(1), 0, << 1, 1, 1 >>)
       /\ Within(0)
    \/ /\ last.op = "start"
       /\ PlayerInput(HumanId(2), Walk)
    \/ \E aim \in ShooterAims :
          /\ last.op = "tick" /\ Holding(room, HumanId(1))
          /\ (clock - T0) % BeamEvery = TICK_MS
          /\ clock <= T0 + BeamWindow
          /\ PlayerInput(HumanId(1),
                Snipe(IF HumanId(1) \in DOMAIN room.latestInputs
                      THEN room.latestInputs[HumanId(1)].seq + 1 ELSE 1, aim))
    \/ /\ last.op = "tick" \/ (last.op = "input" /\ last.by = HumanId(1))
       /\ Holding(room, HumanId(2))
       /\ (clock - T0) % BeamEvery = TICK_MS
       /\ clock <= T0 + BeamWindow
       /\ room.latestInputs[HumanId(2)] = Walk
       /\ PlayerInput(HumanId(2), Halt)
    \/ /\ Phase = "playing" /\ last.op # "start"
       /\ Tick(TICK_MS, << >>, << >>)
       /\ Within(BeamHorizon)
    \/ \E i \in 1..Len(room.timers) :
          /\ room.timers[i].dueMs <= clock
          /\ RespawnTimer(i, 1)

SpecBeam == InitBeam /\ [][NextBeam]_vars

\* ------------------------------------------------------------------------
\* Properties of the rift sniper (the host is the first player a tick
\* handles: when it fires, the others are where the previous tick left them)
\* ------------------------------------------------------------------------
\* the entities in the way of the beam: alive, not the shooter, not an echo
\* of the shooter, their body on the segment
InBeam(e) ==
    {j \in 1..Len(room.players) :
        LET t == room.players[j]
        IN  /\ t.alive
            /\ t.id # e.byId
            /\ ~(t.isEcho /\ t.ownerId = e.byId)
            /\ segmentIntersectsCircle(e.from.x, e.from.y, e.to.x, e.to.y,
                                       t.x, t.y, U(PLAYER_RADIUS))}
Covered(t) == ~t.isEcho /\ isShieldActive(room, t.id, clock')
\* the tick of this step kills the entity (an echo is removed)
Slain(t) ==
    IF t.isEcho THEN ~Has(room'.players, t.id)
    ELSE /\ Has(room'.players, t.id)
         /\ ~PlayerOf(room', t.id).alive
         /\ PlayerOf(room', t.id).deaths = t.deaths + 1
\* the entity lives on without its shield
Bared(t) ==
    /\ Has(room'.players, t.id)
    /\ Vital(PlayerOf(room', t.id)) = Vital(t)
    /\ PlayerOf(room', t.id).shieldHp = 0
    /\ t.id \notin DOMAIN room'.shieldUntilMs

\* the entity lives on with one shield charge less
Dented(t) ==
    /\ Has(room'.players, t.id)
    /\ Vital(PlayerOf(room', t.id)) = Vital(t)
    /\ PlayerOf(room', t.id).shieldHp = t.shieldHp - 1
\* when the host fires the rift sniper, every entity in the way of the beam
\* is killed in that tick and the host's kills grow by one for each, except
\* the ones behind an active shield, which live on as Spared says
BeamResolves(Spared(_)) ==
    last'.op = "tick" =>
       \A i \in 1..Len(room'.events) :
          LET e == room'.events[i]
          IN  e.type = "beam_fire" /\ e.byId = HumanId(1) =>
                 /\ \A j \in InBeam(e) :
                       IF Covered(room.players[j]) THEN Spared(room.players[j])
                       ELSE Slain(room.players[j])
                 /\ PlayerOf(room', e.byId).kills = PlayerOf(room, e.byId).kills
                       + Cardinality({j \in InBeam(e) : ~Covered(room.players[j])})

C15_OffBeam ==
    /\ last.op = "tick"
    /\ \E i \in 1..Len(room.events) :
          /\ room.events[i].type = "beam_fire"
          /\ room.events[i].to.x = room.events[i].from.x
    /\ PlayerOf(room, HumanId(2)).alive
    /\ PlayerOf(room, HumanId(2)).shieldHp = 0
    /\ DeathsOf(room, HumanId(3)) = 1

\* ------------------------------------------------------------------------
\* A time bubble: the host stays on its spawn point and puts the bubble of
\* the pickup there; the second player walks to the right, halts, and
\* shoots to the left, through the bubble, for as long as the bubble lasts
\* ------------------------------------------------------------------------
\* no tick is considered after T0 + BubbleHorizon
BubbleHorizon == 10500
\* the host asks for the bubble no later than T0 + BubbleWindow
BubbleWindow == 150
\* the second player halts and starts to shoot after StandTicks ticks
StandTicks == 27

BubblePickups == AtSpawn(1, << "time_bubble" >>) \o SubSeq(FarPickups, 1, 5)
Leave == Input(1, Keys(FALSE, FALSE, FALSE, TRUE), 0, U(60), FALSE, FALSE)
ShootBack == Input(2, NoKeys, 0, U(60), TRUE, FALSE)

InitBubble ==
    /\ room = createRoom(HumanId(1), Options(2, FALSE, 0, "normal", 3), BubblePickups,
                         1, << >>)
    /\ clock = T0
    /\ last = [op |-> "create", by |-> HumanId(1), ok |-> TRUE, from |-> "lobby"]
    /\ used = {}

NextBubble ==
    \/ RoomJoin(HumanId(2), 1, << >>) /\ Within(0)
    \/ /\ isFull(room) /\ Phase = "lobby"
       /\ MatchStart(HumanId(1), 0, << 1, 1 >>)
       /\ Within(0)
    \/ /\ last.op = "start"
       /\ PlayerInput(HumanId(2), Leave)
    \/ /\ last.op = "tick" /\ Holding(room, HumanId(1))
       /\ clock <= T0 + BubbleWindow
       /\ HumanId(1) \notin DOMAIN room.latestInputs
       /\ PlayerInput(HumanId(1), UseItem(1))
    \/ /\ last.op = "tick" /\ clock = T0 + StandTicks * TICK_MS
       /\ PlayerInput(HumanId(2), ShootBack)
    \/ /\ Phase = "playing" /\ last.op # "start"
       /\ \A i \in 1..Len(room.timers) : room.timers[i].dueMs > clock
       /\ Tick(TICK_MS, << >>, << >>)
       /\ Within(BubbleHorizon)
    \/ \E i \in 1..Len(room.timers) :
          /\ room.timers[i].dueMs <= clock
          /\ RespawnTimer(i, 1)

SpecBubble == InitBubble /\ [][NextBubble]_vars

\* ------------------------------------------------------------------------
\* Properties of the time bubble
\* ------------------------------------------------------------------------
\* the zones that are live in the tick of this step: the ones of the room
\* that have not expired at the tick's time, and the ones the tick creates
LiveZones ==
    {room.zones[k] : k \in {k \in 1..Len(room.zones) : clock' < room.zones[k].expiresAtMs}}
       \cup {room'.zones[k] : k \in {k \in 1..Len(room'.zones) :
                                       ~Has(room.zones, room'.zones[k].id)}}
Slowed(bullet) ==
    \E z \in LiveZones :
       distanceSq(bullet.x, bullet.y, z.x, z.y)
          <= U(TIME_BUBBLE_RADIUS) * U(TIME_BUBBLE_RADIUS)
\* where a projectile is after dtMs at the percentage mult of its velocity
Advanced(bullet, mult, dtMs) ==
    << bullet.x + MulDiv(bullet.vx * mult, dtMs, 100000),
       bullet.y + MulDiv(bullet.vy * mult, dtMs, 100000) >>

\* C16: in a playing tick, a projectile that is within 140 units
\* (inclusive) of the centre of a live zone when the tick starts advances by
\* 0.6 times its velocity times dt, and any other projectile by its
\* velocity times dt; a zone is gone, and slows nothing, from the first tick
\* at or after its expiry.
C16_BubbleSlows ==
    [][last'.op = "tick" /\ Phase = "playing" =>
          /\ \A i \in 1..Len(room.bullets) :
                LET bullet == room.bullets[i]
                IN  Has(room'.bullets, bullet.id) =>
                       At(Get(room'.bullets, bullet.id)) =
                          Advanced(bullet,
                                   IF Slowed(bullet) THEN TIME_BUBBLE_BULLET_MULT ELSE 100,
                                   Max(1, clock' - room.lastTickMs))
          /\ \A k \in 1..Len(room'.zones) : clock' < room'.zones[k].expiresAtMs]_vars

\* a projectile that was exactly on the rim of the bubble has been slowed
C16_Witness ==
    /\ last.op = "tick"
    /\ Len(room.zones) = 1
    /\ \E i \in 1..Len(room.bullets) :
          /\ room.bullets[i].x = room.zones[1].x + U(TIME_BUBBLE_RADIUS)
                  + MulDiv(room.bullets[i].vx * TIME_BUBBLE_BULLET_MULT, TICK_MS, 100000)
          /\ room.bullets[i].y = room.zones[1].y
\* the bubble has expired and projectiles fly at full speed where it was
C16_Expired ==
    /\ last.op = "tick"
    /\ Len(room.zones) = 0
    /\ clock > T0 + TIME_BUBBLE_LIFETIME_MS
    /\ \E i \in 1..Len(room.bullets) :
          /\ room.bullets[i].x < U(60 + TIME_BUBBLE_RADIUS)
          /\ room.bullets[i].ttlMs < BULLET_TTL_MS - TICK_MS

\* ------------------------------------------------------------------------
\* A volley: the second and the third player walk a few ticks to the right
\* and halt, one behind the other or on the same spot; the host stays on
\* the spawn point and shoots, at them or away from them
\* ------------------------------------------------------------------------
\* no tick is considered after T0 + VolleyHorizon
VolleyHorizon == 2600
\* the host chooses its aim five ticks after a multiple of VolleyEvery ms
VolleyEvery == 400
\* ... until T0 + VolleyWindow
VolleyWindow == 700

InitVolley ==
    /\ room = createRoom(HumanId(1), Options(3, FALSE, 0, "normal", 3), FarPickups,
                         1, << >>)
    /\ clock = T0
    /\ last = [op |-> "create", by |-> HumanId(1), ok |-> TRUE, from |-> "lobby"]
    /\ used = {}

NextVolley ==
    \/ \E p \in {HumanId(2), HumanId(3)} :
          /\ p = HumanId(3) => Has(room.players, HumanId(2))
          /\ RoomJoin(p, 1, << >>)
          /\ Within(0)
    \/ /\ isFull(room) /\ Phase = "lobby"
       /\ MatchStart(HumanId(1), 0, << 1, 1, 1 >>)
       /\ Within(0)
    \/ \E p \in {HumanId(2), HumanId(3)} :
          /\ Phase = "playing" /\ clock = T0
          /\ p \notin DOMAIN room.latestInputs
          /\ p = HumanId(3) => HumanId(2) \in DOMAIN room.latestInputs
          /\ PlayerInput(p, Walk)
    \/ \E p \in {HumanId(2), HumanId(3)} :
          /\ last.op = "tick" \/ (last.op = "input" /\ last.by = HumanId(2))
          /\ p \in DOMAIN room.latestInputs /\ room.latestInputs[p] = Walk
          /\ \/ clock = T0 + HaltTicks * TICK_MS
             \/ p = HumanId(3) /\ clock = T0 + (HaltTicks + 1) * TICK_MS
          /\ PlayerInput(p, Halt)
    \/ \E aim \in ShooterAims :
          /\ last.op = "tick" /\ Phase = "playing"
          /\ (clock - T0) % VolleyEvery = 5 * TICK_MS
          /\ clock <= T0 + VolleyWindow
          /\ HumanId(1) \in DOMAIN room.latestInputs
                => room.latestInputs[HumanId(1)].aim # aim
          /\ PlayerInput(HumanId(1), Shoot(aim))
    \/ /\ Phase = "playing"
       /\ HumanId(2) \in DOMAIN room.latestInputs /\ HumanId(3) \in DOMAIN room.latestInputs
       /\ \A i \in 1..Len(room.timers) : room.timers[i].dueMs > clock
       /\ Tick(TICK_MS, << >>, << >>)
       /\ Within(VolleyHorizon)
    \/ \E i \in 1..Len(room.timers) :
          /\ room.timers[i].dueMs <= clock
          /\ RespawnTimer(i, 1)

SpecVolley == InitVolley /\ [][NextVolley]_vars

\* ------------------------------------------------------------------------
\* Properties of the projectiles that stop at their first hit
\* ------------------------------------------------------------------------
\* the entities the projectile at index i of w can hit: alive, not its
\* owner, their body overlapping it
Targets(w, i) ==
    {j \in 1..Len(w.r.players) :
        LET bullet == w.r.bullets[i]
            player == w.r.players[j]
            hitRadius == U(PLAYER_RADIUS) + BulletRadius(bullet)
        IN  /\ player.alive
            /\ player.id # bullet.ownerRootId
            /\ distanceSq(bullet.x, bullet.y, player.x, player.y) <= hitRadius * hitRadius}
\* the projectiles of w, in flight, that stop at their first hit and have an
\* entity to hit
Striking(w) ==
    {i \in 1..Len(w.r.bullets) :
        /\ w.r.bullets[i].id \notin w.removeIds
        /\ ~w.r.bullets[i].isSlash /\ w.r.bullets[i].bouncesLeft = Undefined
        /\ Targets(w, i) # {}}
\* all the hits the tick of this step deals
AllHits(r) == Cardinality({i \in 1..Len(r.events) : r.events[i].type = "hit"})

\* C17: the projectiles of these behaviours have no bounce budget and are
\* no slashes. In every tick, the hits dealt are no more than the
\* projectiles that can hit an entity, one hit for each, and when none of
\* the entities it can hit dies in the tick, such a projectile has dealt
\* its hit and is no longer in the room after the tick.
C17_OneHitThenGone ==
    [][last'.op = "tick" /\ Phase = "playing" =>
          \A w \in {InFlight(room, clock', Max(1, clock' - room.lastTickMs))} :
             /\ AllHits(room') <= Cardinality(Striking(w))
             /\ \A i \in Striking(w) :
                   (\A j \in Targets(w, i) : PlayerOf(room', w.r.players[j].id).alive)
                      => ~Has(room'.bullets, w.r.bullets[i].id)
             /\ AllHits(room') < Cardinality(Striking(w)) =>
                   \E j \in 1..Len(room.players) :
                      room.players[j].alive /\ ~PlayerOf(room', room.players[j].id).alive]_vars

\* a projectile that overlapped the second and the third player at once
\* has hit the second one only, and is gone
C17_Witness ==
    /\ last.op = "tick"
    /\ AllHits(room) = 1
    /\ HitOn(room, HumanId(2))
    /\ At(PlayerOf(room, HumanId(2))) = At(PlayerOf(room, HumanId(3)))
    /\ PlayerOf(room, HumanId(2)).hp = 2 /\ PlayerOf(room, HumanId(3)).hp = 3
    /\ PlayerOf(room, HumanId(2)).x = U(60) + HaltTicks * TDiv(U(SPEED) * TICK_MS, 1000)
    /\ room.bullets = << >>

\* ------------------------------------------------------------------------
\* Annihilation bouncers: the host, alone on its spawn point where two of
\* them lie, fires them to the left, into the corner or to the right, and
\* the ticks go on until they are gone
\* ------------------------------------------------------------------------
\* no tick is considered after T0 + BouncerHorizon
BouncerHorizon == 13000
\* the host sends its inputs no later than T0 + BouncerWindow
BouncerWindow == 200
\* a late tick comes StallTicks tick periods after the previous one
StallTicks == 240

BouncerPickups ==
    AtSpawn(1, << "annihilation_bouncer", "annihilation_bouncer" >>)
       \o SubSeq(FarPickups, 1, 4)
BouncerAims == {[x |-> 0, y |-> U(60)], [x |-> 0, y |-> 0], [x |-> U(1200), y |-> U(60)]}
Bouncers(r) == {i \in 1..Len(r.bullets) : r.bullets[i].bouncesLeft # Undefined}

InitBouncer ==
    /\ room = createRoom(HumanId(1), Options(2, FALSE, 0, "normal", 3), BouncerPickups,
                         1, << >>)
    /\ clock = T0
    /\ last = [op |-> "create", by |-> HumanId(1), ok |-> TRUE, from |-> "lobby"]
    /\ used = {}

NextBouncer ==
    \/ /\ Phase = "lobby"
       /\ MatchStart(HumanId(1), 0, << 1 >>)
       /\ Within(0)
    \/ \E aim \in BouncerAims :
          /\ last.op = "tick" /\ Holding(room, HumanId(1))
          /\ clock <= T0 + BouncerWindow
          /\ PlayerInput(HumanId(1),
                Snipe(IF HumanId(1) \in DOMAIN room.latestInputs
                      THEN room.latestInputs[HumanId(1)].seq + 1 ELSE 1, aim))
    \/ /\ Phase = "playing"
       /\ \A i \in 1..Len(room.timers) : room.timers[i].dueMs > clock
       /\ Tick(TICK_MS, << >>, << >>)
       /\ Within(BouncerHorizon)
    \/ /\ Phase = "playing" /\ Bouncers(room) # {}
       /\ clock <= T0 + 2 * BouncerWindow
       /\ Tick(StallTicks * TICK_MS, << >>, << >>)
       /\ Within(BouncerHorizon)
    \/ \E i \in 1..Len(room.timers) :
          /\ room.timers[i].dueMs <= clock
          /\ RespawnTimer(i, 1)

SpecBouncer == InitBouncer /\ [][NextBouncer]_vars

\* ------------------------------------------------------------------------
\* Properties of the annihilation bouncer (no zone slows the projectiles of
\* these behaviours)
\* ------------------------------------------------------------------------
RECURSIVE Pow2(_)
Pow2(n) == IF n <= 0 THEN 1 ELSE 2 * Pow2(n - 1)
\* the bouncers of a room have bounces and time left, and the damage of
\* BOUNCER_BOUNCES - bouncesLeft doublings
BouncersSound(r) ==
    \A i \in Bouncers(r) :
       /\ r.bullets[i].bouncesLeft \in 1..BOUNCER_BOUNCES
       /\ r.bullets[i].ttlMs > 0
       /\ r.bullets[i].damage
             = BOUNCER_DAMAGE * Pow2(BOUNCER_BOUNCES - r.bullets[i].bouncesLeft)
\* the projectile, moved by its velocity for dtMs, crosses a wall
Crosses(b, dtMs) ==
    LET x == b.x + MulDiv(b.vx * 100, dtMs, 100000)
        y == b.y + MulDiv(b.vy * 100, dtMs, 100000)
    IN  \/ x - b.radius < 0 \/ x + b.radius > U(ARENA_W)
        \/ y - b.radius < 0 \/ y + b.radius > U(ARENA_H)
\* what a tick of dtMs makes of a bouncer of the room
BouncerStep(b, dtMs) ==
    IF Crosses(b, dtMs)
    THEN IF b.bouncesLeft - 1 <= 0 \/ b.ttlMs - dtMs <= 0
         THEN ~Has(room'.bullets, b.id)
         ELSE /\ Has(room'.bullets, b.id)
              /\ LET after == Get(room'.bullets, b.id)
                 IN  /\ after.bouncesLeft = b.bouncesLeft - 1
                     /\ after.damage = 2 * b.damage
                     /\ Abs(after.vx) = 2 * Abs(b.vx) /\ Abs(after.vy) = 2 * Abs(b.vy)
                     /\ after.radius = (b.radius * 8) \div 10
    ELSE IF b.ttlMs - dtMs <= 0
         THEN ~Has(room'.bullets, b.id)
         ELSE /\ Has(room'.bullets, b.id)
              /\ LET after == Get(room'.bullets, b.id)
                 IN  /\ after.bouncesLeft = b.bouncesLeft
                     /\ after.damage = b.damage
                     /\ after.vx = b.vx /\ after.vy = b.vy
                     /\ after.radius = b.radius

\* C18: a bouncer has its BOUNCER_BOUNCES bounces when it is fired; a tick
\* in which it crosses a wall takes one bounce, doubles its damage and its
\* velocity and multiplies its radius by 0.8, and any other tick leaves
\* them; it is in the room after a tick if and only if it has bounces and
\* time left then.
C18_BouncerBounces ==
    [][last'.op = "tick" =>
          /\ BouncersSound(room')
          /\ \A i \in Bouncers(room) :
                BouncerStep(room.bullets[i], Max(1, clock' - room.lastTickMs))]_vars

\* a bouncer fired along a wall has bounced five times: one bounce left, 32
\* times the damage and the speed, a smaller radius
C18_Witness ==
    /\ last.op = "tick"
    /\ \E i \in Bouncers(room) :
          /\ room.bullets[i].bouncesLeft = 1
          /\ room.bullets[i].damage = 32 * BOUNCER_DAMAGE
          /\ Abs(room.bullets[i].vx) = 32 * U(BOUNCER_SPEED)
          /\ room.bullets[i].radius < U(BOUNCER_RADIUS) \div 3
\* a bouncer has used its last bounce and is gone
C18_Gone ==
    /\ last.op = "tick"
    /\ room.bullets = << >>
    /\ room.bulletSeq >= 1
    /\ clock < T0 + BOUNCER_TTL_MS
    /\ PlayerOf(room, HumanId(1)).heldItem = "annihilation_bouncer"
\* a bouncer has run out of time with bounces left
C18_TimedOut ==
    /\ last.op = "tick"
    /\ room.bullets = << >>
    /\ room.bulletSeq >= 1
    /\ clock = room.lastTickMs /\ clock >= T0 + StallTicks * TICK_MS
    /\ clock <= T0 + 2 * BouncerWindow + StallTicks * TICK_MS

\* ------------------------------------------------------------------------
\* One's own projectiles: the host, alone, shoots to the right from its
\* spawn point, where it finds an echo and then a bouncer; it spawns the
\* echo, walks to the right, fires the bouncer at the wall above, and walks
\* on, in front of the echo that replays its shots
\* ------------------------------------------------------------------------
\* no tick is considered after T0 + OwnHorizon
OwnHorizon == 1700
\* the host starts to walk no later than T0 + OwnWindow
OwnWindow == 250
\* ... and fires the bouncer after AdvanceTicks ticks of walking, or a
\* tick or two later
AdvanceTicks == 4

OwnPickups == AtSpawn(1, << "echo", "annihilation_bouncer" >>) \o SubSeq(FarPickups, 1, 4)
Volley(seq) == Input(seq, NoKeys, U(1200), U(60), TRUE, TRUE)
Advance == Input(2, Keys(FALSE, FALSE, FALSE, TRUE), U(1200), U(60), FALSE, FALSE)
Lob(x) == Input(3, Keys(FALSE, FALSE, FALSE, TRUE), x, 0, FALSE, TRUE)
Stride == TDiv(U(SPEED) * TICK_MS, 1000)

InitOwn ==
    /\ room = createRoom(HumanId(1), Options(2, FALSE, 0, "normal", 3), OwnPickups,
                         1, << >>)
    /\ clock = T0
    /\ last = [op |-> "create", by |-> HumanId(1), ok |-> TRUE, from |-> "lobby"]
    /\ used = {}

NextOwn ==
    \/ /\ Phase = "lobby"
       /\ MatchStart(HumanId(1), 0, << 1 >>)
       /\ Within(0)
    \/ /\ last.op = "start"
       /\ PlayerInput(HumanId(1), Volley(1))
    \/ /\ last.op = "tick" /\ clock = T0 + TICK_MS
       /\ PlayerInput(HumanId(1), Volley(2))
    \/ /\ last.op = "tick" /\ room.latestInputs[HumanId(1)] = Volley(2)
       /\ Holding(room, HumanId(1)) /\ Len(room.echoes) = 1
       /\ clock <= T0 + OwnWindow
       /\ PlayerInput(HumanId(1), Advance)
    \/ /\ last.op = "tick" /\ room.latestInputs[HumanId(1)] = Advance
       /\ PlayerOf(room, HumanId(1)).x >= U(60) + AdvanceTicks * Stride
       /\ PlayerOf(room, HumanId(1)).x <= U(60) + (AdvanceTicks + 2) * Stride
       /\ PlayerInput(HumanId(1), Lob(PlayerOf(room, HumanId(1)).x + Stride))
    \/ /\ Phase = "playing" /\ last.op # "start"
       /\ Tick(TICK_MS, << >>, << >>)
       /\ Within(OwnHorizon)

SpecOwn == InitOwn /\ [][NextOwn]_vars

\* ------------------------------------------------------------------------
\* Properties of a projectile and the root of its owner
\* ------------------------------------------------------------------------
\* the projectile overlaps the body of the entity
Overlapping(bullet, player) ==
    distanceSq(bullet.x, bullet.y, player.x, player.y)
       <= (U(PLAYER_RADIUS) + BulletRadius(bullet)) * (U(PLAYER_RADIUS) + BulletRadius(bullet))
\* the entities that the events of a room report hit or killed by a
\* projectile of their own
OwnVictims(r) ==
    {r.events[i].targetId : i \in {i \in 1..Len(r.events) :
        r.events[i].type = "hit" /\ r.events[i].targetId = r.events[i].byRootId}}
    \cup
    {r.events[i].id : i \in {i \in 1..Len(r.events) :
        r.events[i].type = "death" /\ r.events[i].id = r.events[i].byRootId}}

C19_OwnBouncerHits ==
    /\ last.op = "tick"
    /\ HumanId(1) \in OwnVictims(room)
    /\ Bouncers(room) # {}

\* ------------------------------------------------------------------------
\* The last human leaves: a room with a bot; a second player joins, the
\* host fires after it as it walks right, either of them starts the match,
\* and each of them disconnects at any moment
\* ------------------------------------------------------------------------
\* ticks are considered up to LeaveHorizon ms after the room's creation
LeaveHorizon == 900
\* the second player joins and the match is started within LeaveSetup ms
LeaveSetup == 50

InitLeave ==
    /\ room = createRoom(HumanId(1), Options(3, TRUE, 1, "normal", 1), FarPickups,
                         1, << 1 >>)
    /\ clock = T0
    /\ last = [op |-> "create", by |-> HumanId(1), ok |-> TRUE, from |-> "lobby"]
    /\ used = {}

\* a respawn is not delayed while the interval runs; a timeout that is
\* pending when the room is dropped still fires
NextLeave ==
    \/ RoomJoin(HumanId(2), 1, << 1 >>) /\ Within(LeaveSetup)
    \/ \E p \in Humans(2) : Disconnect(p, << 1 >>)
    \/ PlayerInput(HumanId(1), Fire(1)) /\ Within(0)
    \/ PlayerInput(HumanId(2), WalkRight) /\ Within(0)
    \/ \E p \in Humans(2) :
          \E spawns \in SpawnDraws(Len(room.players), {1}) :
             MatchStart(p, 0, spawns) /\ Within(LeaveSetup)
    \/ /\ \A i \in 1..Len(room.timers) : room.timers[i].dueMs > clock
       /\ Tick(TICK_MS, ArenaJitter, << 1 >>)
       /\ Within(LeaveHorizon)
    \/ \E i \in 1..Len(room.timers) : RespawnTimer(i, 1)

SpecLeave == InitLeave /\ [][NextLeave]_vars

\* C20: when the last human leaves the room (bots or not), the interval
\* is cleared and the room is dropped, and from then on no tick runs (a
\* tick is what emits the snapshots) and the interval never comes back.
C20_LastHumanStops ==
    [][/\ getHumanCount(room') = 0 => ~room'.ticking
       /\ ~room.ticking => ~room'.ticking /\ last'.op # "tick"]_vars

\* the last human has just left a room in which a bot remains
C20_Witness ==
    /\ last.op = "disconnect"
    /\ getHumanCount(room) = 0
    /\ getBotCount(room) > 0
    /\ \E i \in 1..Len(room.players) : room.players[i].isBot
    /\ ~room.ticking

\* a respawn timeout fires in a room that was dropped
C20_LateTimeout == ~room.ticking /\ last.op = "respawn"

\* ------------------------------------------------------------------------
\* The roster: a room of three places filled with up to two bots; four
\* sockets join, join again and disconnect in any order, and the interval
\* ticks in the lobby (the bot check of the tick runs ensureBots)
\* ------------------------------------------------------------------------
\* ticks are considered up to RosterHorizon ms after the room's creation
RosterHorizon == 1100
\* the tick that follows a stall comes RosterStall ticks after the last one
RosterStall == 21
\* at most MaxBotSeq bots are ever made
MaxBotSeq == 6

RosterPlayers == Humans(4)
RosterSpawns == << 1, 1 >>
RosterJitter == << [x |-> U(1), y |-> 0], [x |-> U(1), y |-> 0] >>
BotsLeft == room.botSeq + 2 <= MaxBotSeq

InitRoster ==
    /\ room = createRoom(HumanId(1), Options(3, TRUE, 2, "normal", 3), FarPickups,
                         1, RosterSpawns)
    /\ clock = T0
    /\ last = [op |-> "create", by |-> HumanId(1), ok |-> TRUE, from |-> "lobby"]
    /\ used = {}

NextRoster ==
    \/ \E p \in RosterPlayers : BotsLeft /\ RoomJoin(p, 1, RosterSpawns)
    \/ \E p \in RosterPlayers : BotsLeft /\ RoomRejoin(p, 1, RosterSpawns)
    \/ \E p \in RosterPlayers : BotsLeft /\ Disconnect(p, RosterSpawns)
    \/ /\ BotsLeft
       /\ Tick(RosterStall * TICK_MS, RosterJitter, RosterSpawns)
       /\ Within(RosterHorizon)

SpecRoster == InitRoster /\ [][NextRoster]_vars

NonEchoes(r) == {r.players[i].id : i \in {j \in 1..Len(r.players) : ~r.players[j].isEcho}}
HostId == room.match.hostId

\* C21: when the entity that is the host is removed from the room, the
\* host becomes a remaining non-echo entity, or nobody when there is none;
\* while the host stays in the room it stays the host.
C21_HostReassigned ==
    [][IF ~Has(room.players, HostId) THEN TRUE
       ELSE IF Has(room'.players, HostId) THEN room'.match.hostId = HostId
       ELSE IF NonEchoes(room') = {} THEN room'.match.hostId = NoId
       ELSE room'.match.hostId \in NonEchoes(room')]_vars

\* the same, for the removals of Room.removePlayer alone (a disconnect)
HostReassignedOnDisconnect ==
    [][last'.op = "disconnect" /\ Has(room.players, HostId) =>
          IF Has(room'.players, HostId) THEN room'.match.hostId = HostId
          ELSE IF NonEchoes(room') = {} THEN room'.match.hostId = NoId
          ELSE room'.match.hostId \in NonEchoes(room')]_vars

\* the host has left and a bot took over although a human is in the room
BotIsHost ==
    /\ last.op = "disconnect"
    /\ room.ticking
    /\ Has(room.players, HostId) /\ PlayerOf(room, HostId).isBot
    /\ getHumanCount(room) > 0

\* a join has evicted the bot that was the host: the host is nobody that
\* is in the room
C21_Witness ==
    /\ last.op = "join" /\ last.ok
    /\ HostId # NoId
    /\ ~Has(room.players, HostId)
    /\ getHumanCount(room) > 0

\* a room:join request, from a socket in the room or not
Joining == last'.op \in {"join", "rejoin"}
Crowded(r) == getPlayerCount(r) >= r.maxPlayers

\* C22: the humans and bots of a room are never more than maxPlayers; a
\* join to a full room evicts the first bot and is accepted when the room
\* has a bot, and is refused, the room staying as it is, when it has none.
C22_NeverOverfull ==
    [][/\ getPlayerCount(room') <= room'.maxPlayers
       /\ Joining /\ Crowded(room) /\ Len(room.botIds) > 0 =>
             /\ last'.ok
             /\ ~Has(room'.players, Head(room.botIds))
             /\ Has(room'.players, last'.by)
       /\ Joining /\ Crowded(room) /\ Len(room.botIds) = 0 =>
             /\ ~last'.ok
             /\ room' = room]_vars

\* a fourth socket was refused by a room of three humans
C22_Witness ==
    /\ last.op = "join" /\ ~last.ok
    /\ ~Has(room.players, last.by)
    /\ getHumanCount(room) = room.maxPlayers
    /\ getBotCount(room) = 0

\* a join has evicted a bot and the room is full again
JoinEvicted ==
    /\ last.op = "join" /\ last.ok
    /\ room.botSeq > getBotCount(room) + getHumanCount(room) - 1
    /\ getBotCount(room) > 0
    /\ getPlayerCount(room) = room.maxPlayers

\* ------------------------------------------------------------------------
\* A flood of inputs: the host alone in a playing match, a shield pickup on
\* its spawn point; it sends inputs numbered 1, 2, ... that walk right or
\* down, shoot or not and ask for the item or not, any number of them
\* between two ticks
\* ------------------------------------------------------------------------
\* ticks are considered up to FloodHorizon ms after the room's creation
FloodHorizon == 200
\* the host sends at most MaxSeq inputs
MaxSeq == 3

FloodPickups == AtSpawn(1, << "shield" >>) \o SubSeq(FarPickups, 1, 5)
FloodKeys == {Keys(FALSE, FALSE, FALSE, TRUE), Keys(FALSE, TRUE, FALSE, FALSE)}
FloodInputs(seq) ==
    {Input(seq, k, U(ARENA_W), U(60), s, u) : k \in FloodKeys, s \in BOOLEAN, u \in BOOLEAN}
LatestSeq(r, p) == IF p \in DOMAIN r.latestInputs THEN r.latestInputs[p].seq ELSE 0

InitFlood ==
    /\ room = createRoom(HumanId(1), Options(2, FALSE, 0, "normal", 3), FloodPickups,
                         1, << >>)
    /\ clock = T0
    /\ last = [op |-> "create", by |-> HumanId(1), ok |-> TRUE, from |-> "lobby"]
    /\ used = {}

NextFlood ==
    \/ MatchStart(HumanId(1), 0, << 1 >>) /\ Within(0)
    \/ /\ LatestSeq(room, HumanId(1)) < MaxSeq
       /\ \E input \in FloodInputs(LatestSeq(room, HumanId(1)) + 1) :
             PlayerInput(HumanId(1), input)
    \/ /\ Phase = "playing"
       /\ Tick(TICK_MS, << >>, << >>)
       /\ Within(FloodHorizon)

SpecFlood == InitFlood /\ [][NextFlood]_vars

\* what the tick does for a human is what that human's latest input asks
\* for: it moves along the input's keys, fires only if the input shoots,
\* and uses its item only if the input asks for it
Obeys(p, input) ==
    LET before == PlayerOf(room, p)
        after == PlayerOf(room', p)
    IN  /\ after.x = before.x + (IF input.keys.right THEN Stride ELSE 0)
        /\ after.y = before.y + (IF input.keys.down THEN Stride ELSE 0)
        /\ room'.bulletSeq =
              IF input.shoot /\ ~FireCooldownActive(clock' - MapGet(room.lastShotAtMs, p, 0))
              THEN room.bulletSeq + 1 ELSE room.bulletSeq
        /\ IF input.useItem /\ canUseItemAnswer(room, p, input.seq)
           THEN /\ room'.lastUseItemSeq[p] = input.seq
                /\ before.heldItem = "shield" =>
                      after.shieldHp = SHIELD_CHARGES /\ after.heldItem = "none"
           ELSE /\ room'.lastUseItemSeq = room.lastUseItemSeq
                /\ after.shieldHp = before.shieldHp
                /\ before.heldItem # "none" => after.heldItem = before.heldItem

\* C23: only the last of the inputs a player sent before a tick counts.  An
\* input changes nothing but the sender's slot, which it replaces whole, so
\* that an input followed by another leaves the room as the second alone
\* would; the tick acts on the slot; an input for an id that is not in the
\* room changes nothing.
C23_LastInputWins ==
    [][/\ last'.op = "input" =>
             room' = [room EXCEPT !.latestInputs =
                                     MapSet(@, last'.by, room'.latestInputs[last'.by])]
       /\ \A a \in FloodInputs(1), b \in FloodInputs(2) :
             /\ handleInput(handleInput(room, HumanId(1), a), HumanId(1), b)
                   = handleInput(room, HumanId(1), b)
             /\ handleInput(room, HumanId(2), a) = room
       /\ last'.op = "tick" /\ HumanId(1) \in DOMAIN room.latestInputs =>
             Obeys(HumanId(1), room.latestInputs[HumanId(1)])]_vars

\* inputs 1 and 2 arrived between the first tick and the second, and
\* input 2 walks down without shooting or using the item: whatever input 1
\* asked for, the host went down, fired nothing and still holds its shield
C23_Witness ==
    /\ last.op = "tick"
    /\ clock = T0 + 2 * TICK_MS
    /\ LatestSeq(room, HumanId(1)) = 2
    /\ Len(room.inputBuffer[HumanId(1)]) = 1
    /\ ~room.latestInputs[HumanId(1)].shoot
    /\ ~room.latestInputs[HumanId(1)].useItem
    /\ room.latestInputs[HumanId(1)].keys.down
    /\ PlayerOf(room, HumanId(1)).x = SPAWN_POINTS[1].x
    /\ PlayerOf(room, HumanId(1)).y = SPAWN_POINTS[1].y + Stride
    /\ PlayerOf(room, HumanId(1)).heldItem = "shield"
    /\ room.bulletSeq = 0
    /\ used = {}

\* ------------------------------------------------------------------------
\* Bots and pickups (in the skirmish, where the bot spawns on the pickups)
\* ------------------------------------------------------------------------
Bots(r) == {r.players[i].id : i \in {j \in 1..Len(r.players) : r.players[j].isBot}}

\* no ability was ever activated by a bot: nothing that an ability makes
\* is a bot's
BotsMakeNoEffect ==
    \A b \in Bots(room) :
       /\ PlayerOf(room, b).shieldHp = 0
       /\ b \notin DOMAIN room.shieldUntilMs
       /\ b \notin DOMAIN room.dashUntilMs
       /\ b \notin DOMAIN room.lastUseItemSeq
       /\ b \notin DOMAIN room.pendingStrikes
       /\ b \notin DOMAIN room.pendingPortals
       /\ \A u \in used : u[1] # b
       /\ \A i \in 1..Len(room.echoes) : room.echoes[i].ownerId # b
       /\ \A i \in 1..Len(room.strikes) : room.strikes[i].byId # b
       /\ \A i \in 1..Len(room.portals) : room.portals[i].ownerId # b
       /\ \A i \in 1..Len(room.bullets) :
             room.bullets[i].ownerRootId = b =>
                /\ ~room.bullets[i].isSlash
                /\ room.bullets[i].bouncesLeft = Undefined
                /\ room.bullets[i].burstId = NoId

\* C24: no bot ever takes an ability pickup: a bot holds no item in any
\* state (a pickup taken by a bot is held by it), and nothing that an
\* ability makes is ever a bot's.
C24_BotsTakeNoPickup ==
    /\ \A b \in Bots(room) : PlayerOf(room, b).heldItem = "none"
    /\ BotsMakeNoEffect

\* a tick in which the bot took a pickup: it holds an item, the pickup is
\* off the arena and its respawn is scheduled
C24_Witness ==
    /\ last.op = "tick"
    /\ \E b \in Bots(room) : PlayerOf(room, b).heldItem # "none"
    /\ Len(room.pickups) < PICKUP_COUNT
    /\ \E i \in 1..Len(room.timers) : room.timers[i].kind = "pickup"

\* ------------------------------------------------------------------------
\* Confirmations: two players on a spawn point where an orbital strike and
\* a linked-portals pickup lie; each asks for its item once, and each sends
\* strike:confirm and portal:placeB requests whether it has anything to
\* confirm or not, in the lobby, in time, dead, and after the window
\* ------------------------------------------------------------------------
\* ticks are considered up to ConfirmHorizon ms after the room's creation
ConfirmHorizon == 5400
\* confirmations are sent in the first ConfirmWindow ms of every
\* ConfirmEvery ms
ConfirmEvery == 2500
ConfirmWindow == 200
\* a confirmation is handled at a tick's instant or, once the windows are
\* about to close, ConfirmLag ms after it
ConfirmLag == 40

ConfirmPickups ==
    AtSpawn(1, << "orbital_strike", "linked_portals" >>) \o SubSeq(FarPickups, 1, 4)
ConfirmLags == {0, ConfirmLag}

InitConfirm ==
    /\ room = createRoom(HumanId(1), Options(2, FALSE, 0, "normal", 2), ConfirmPickups,
                         1, << >>)
    /\ clock = T0
    /\ last = [op |-> "create", by |-> HumanId(1), ok |-> TRUE, from |-> "lobby"]
    /\ used = {}

NextConfirm ==
    \/ RoomJoin(HumanId(2), 1, << >>) /\ Within(0)
    \/ \E spawns \in SpawnDraws(Len(room.players), {1}) :
          MatchStart(HumanId(1), 0, spawns) /\ Within(0)
    \/ \E p \in Humans(2) :
          /\ last.op = "tick"
          /\ Holding(room, p)
          /\ p \notin DOMAIN room.latestInputs
          /\ PlayerInput(p, UseItem(1))
          /\ Within(ConfirmWindow)
    \/ \E p \in Humans(2), e \in ConfirmLags :
          /\ clock = room.lastTickMs
          /\ e # 0 => clock >= T0 + STRIKE_TARGET_WINDOW_MS
          /\ StrikeConfirm(p, U(60), U(60), e)
          /\ Sampled(ConfirmEvery, ConfirmWindow)
    \/ \E p \in Humans(2), e \in ConfirmLags :
          /\ clock = room.lastTickMs
          /\ e # 0 => clock >= T0 + PORTAL_PENDING_MS
          /\ PortalPlaceB(p, U(300), U(60), e)
          /\ Sampled(ConfirmEvery, ConfirmWindow)
    \/ /\ \A i \in 1..Len(room.timers) : room.timers[i].dueMs > clock
       /\ Tick(TICK_MS, << >>, << >>)
       /\ Within(ConfirmHorizon)
    \/ \E i \in 1..Len(room.timers) : RespawnTimer(i, 1)

SpecConfirm == InitConfirm /\ [][NextConfirm]_vars

\* the reasons for which a confirmation is to be dropped: the phase, the
\* caller, its pending targeting, the window, the item it holds
Lapsed(r, pending, item, caller, nowMs) ==
    \/ r.match.phase # "playing"
    \/ ~Has(r.players, caller)
    \/ ~PlayerOf(r, caller).alive
    \/ PlayerOf(r, caller).isEcho
    \/ caller \notin DOMAIN pending
    \/ nowMs > pending[caller].expiresAtMs
    \/ PlayerOf(r, caller).heldItem # item
NothingMade(r, after) ==
    /\ after.strikes = r.strikes
    /\ after.portals = r.portals
    /\ after.players = r.players
    /\ after.pendingEvents = r.pendingEvents
\* sockets that are not in the room
Strangers == {HumanId(3)}

DeadCallerDropped ==
    /\ last.op = "portal_place"
    /\ last.by \in DOMAIN room.pendingPortals
    /\ ~PlayerOf(room, last.by).alive
    /\ room.portals = << >>
\* a confirmation in the lobby was dropped
LobbyConfirmDropped == last.op = "strike_confirm" /\ last.from = "lobby"
\* a strike and a portal were committed
BothCommitted == room.strikes # << >> /\ room.portals # << >>

\* ------------------------------------------------------------------------
\* Stale respawns: the host fires after a second player that walks right
\* and dies of one hit, early in the match or shortly before its end; while
\* the respawn is pending the second player may disconnect, the host may
\* restart the match (and start the next one), and the match may end
\* ------------------------------------------------------------------------
\* regular ticks are considered up to StaleHorizon ms after the room's
\* creation, and for as long after the stall
StaleHorizon == 2000
\* the stall, in ticks: a second and a half short of the default duration
StaleStall == 5970
\* the host restarts, and the second player leaves, at multiples of
\* StaleEvery ms
StaleEvery == 500

InitStale ==
    /\ room = createRoom(HumanId(1), Options(2, FALSE, 0, "normal", 1), FarPickups,
                         1, << >>)
    /\ clock = T0
    /\ last = [op |-> "create", by |-> HumanId(1), ok |-> TRUE, from |-> "lobby"]
    /\ used = {}

\* the second player starts to walk at once or after the stall, which is
\* the first tick when there is one
NextStale ==
    \/ RoomJoin(HumanId(2), 1, << >>) /\ Within(0)
    \/ PlayerInput(HumanId(1), Fire(1)) /\ Within(0)
    \/ /\ clock \in {T0, T0 + StaleStall * TICK_MS}
       /\ HumanId(2) \notin DOMAIN room.latestInputs
       /\ PlayerInput(HumanId(2), WalkRight)
    \/ \E spawns \in SpawnDraws(Len(room.players), {1}) :
          /\ isFull(room) \/ last.op = "restart"
          /\ MatchStart(HumanId(1), 0, spawns)
          /\ Within(0) \/ last.op = "restart"
    \/ \E spawns \in SpawnDraws(Len(room.players), {1}) :
          /\ room.timers # << >>
          /\ (clock - T0) % StaleEvery = 0
          /\ MatchRestart(HumanId(1), spawns)
    \/ /\ room.timers # << >>
       /\ (clock - T0) % StaleEvery = 0
       /\ Disconnect(HumanId(2), << >>)
    \/ /\ \A i \in 1..Len(room.timers) : room.timers[i].dueMs > clock
       /\ Tick(TICK_MS, << >>, << >>)
       /\ \/ Within(StaleHorizon)
          \/ /\ clock >= T0 + StaleStall * TICK_MS
             /\ Within(StaleStall * TICK_MS + StaleHorizon)
    \/ /\ room.lastTickMs = T0
       /\ Phase = "playing"
       /\ HumanId(2) \notin DOMAIN room.latestInputs
       /\ Tick(StaleStall * TICK_MS, << >>, << >>)
    \/ \E i \in 1..Len(room.timers), spawn \in {1, 2} : RespawnTimer(i, spawn)

SpecStale == InitStale /\ [][NextStale]_vars

\* C26: a respawn callback that fires when its entity is no longer in the
\* room, or in another phase than playing, changes nothing (but that the
\* timeout is no longer pending): it makes no entity, and revives and moves
\* none.
C26_StaleRespawnIgnored ==
    [][last'.op = "respawn"
          /\ (~Has(room.players, last'.by) \/ room.match.phase # "playing")
       => room' = [room EXCEPT !.timers = room'.timers]]_vars

\* the callback fired after the match had ended, for an entity that died
\* shortly before: it is dead still
C26_Witness ==
    /\ last.op = "respawn"
    /\ last.from = "ended"
    /\ Has(room.players, last.by)
    /\ ~PlayerOf(room, last.by).alive

\* the callback fired in the lobby, after a restart
RespawnInLobby == last.op = "respawn" /\ last.from = "lobby"

\* the callback fired for a player that had disconnected
RespawnOfTheGone ==
    /\ last.op = "respawn"
    /\ room.ticking
    /\ ~Has(room.players, last.by)

\* the callback of a death in one match fired in the next
RespawnInNextMatch ==
    /\ last.op = "respawn"
    /\ last.from = "playing"
    /\ room.match.startedAtMs > T0

\* ------------------------------------------------------------------------
\* Shield charges and overlap (in the behaviours of the shield)
\* ------------------------------------------------------------------------
\* C27: in the bullet engine a shield charge is taken only by a projectile,
\* not a slash, whose circle overlaps the shielded entity's body: in a tick
\* in which no such projectile reaches the entity its charges stay as they
\* were.
C27_ChargeOnlyOnOverlap ==
    [][last'.op = "tick" /\ Phase = "playing" =>
          \A w \in {InFlight(room, clock', Max(1, clock' - room.lastTickMs))} :
          \A id \in Humans(2) :
             /\ Has(w.r.players, id)
             /\ isShieldActive(w.r, id, clock')
             /\ Reaching(w, id) = {}
             => ShieldCharges(room', id) = ShieldCharges(w.r, id)]_vars

\* both charges of the host's shield were taken by projectiles that were
\* shot away from it: the shield is broken and the host was never hit
C27_Witness ==
    /\ last.op = "tick"
    /\ HasEvent(room, "shield_break")
    /\ clock < T0 + SHIELD_DURATION_MS
    /\ Has(room.players, HumanId(1))
    /\ HumanId(2) \in DOMAIN room.latestInputs
    /\ room.latestInputs[HumanId(2)].aim.y = U(800)
    /\ ShieldCharges(room, HumanId(1)) = 0
    /\ PlayerOf(room, HumanId(1)).hp = PlayerOf(room, HumanId(1)).maxHp
    /\ PlayerOf(room, HumanId(1)).deaths = 0

\* ------------------------------------------------------------------------
\* Nova projectiles and the entities they are not to hit again (in the
\* behaviours of the pulse nova)
\* ------------------------------------------------------------------------
\* the entities a projectile could hit or be absorbed by in this tick: alive,
\* not its owner root, and overlapping it or behind an active shield
Stoppers(w, bullet, nowMs) ==
    {id \in IdSet(w.r.players) :
        /\ PlayerOf(w.r, id).alive
        /\ id # bullet.ownerRootId
        /\ Overlapping(bullet, PlayerOf(w.r, id)) \/ isShieldActive(w.r, id, nowMs)}

\* C28: an entity that the per-burst cooldown marks for a nova projectile
\* is skipped and no more: a nova projectile that is in flight after the
\* move (its time is not up and it is inside the arena) and that neither
\* hits an entity nor meets a shield in the tick is in flight after it.
C28_IgnoredOnlySkipped ==
    [][last'.op = "tick" =>
          \A w \in {InFlight(room, clock', Max(1, clock' - room.lastTickMs))} :
          \A i \in 1..Len(w.r.bullets) :
             /\ w.r.bullets[i].burstId # NoId
             /\ w.r.bullets[i].id \notin w.removeIds
             /\ Stoppers(w, w.r.bullets[i], clock') = {}
             => Has(room'.bullets, w.r.bullets[i].id)]_vars

\* the host fired a burst in this tick and none of its projectiles hit the
\* second player, who is alive; but for one, the burst is gone
C28_Witness ==
    /\ last.op = "tick"
    /\ \E i \in 1..Len(room.events) :
          room.events[i].type = "nova_fire" /\ room.events[i].byId = HumanId(1)
    /\ PlayerOf(room, HumanId(2)).alive
    /\ HitsOn(room, HumanId(2)) = 0
    /\ Cardinality({i \in 1..Len(room.bullets) :
                       room.bullets[i].ownerRootId = HumanId(1)}) = 1

\* ------------------------------------------------------------------------
\* Void slices: the host stands on a void slice at the first spawn point,
\* the second player at the second one, 1080 units to the right on the same
\* line. The second player starts shooting to the left at some tick, the
\* host sends its slash to the right or to the left at some tick.
\* ------------------------------------------------------------------------
\* no tick is considered after T0 + SliceHorizon
SliceHorizon == 3600
\* no input is sent after T0 + SliceWindow
SliceWindow == 300

SlicePickups == AtSpawn(1, << "void_slice" >>) \o SubSeq(FarPickups, 1, 5)
SliceAims == {[x |-> U(ARENA_W), y |-> U(60)], [x |-> 0, y |-> U(60)]}
Slice(aim) == Input(1, NoKeys, aim.x, aim.y, FALSE, TRUE)
ShootLeft == Input(1, NoKeys, 0, U(60), TRUE, FALSE)

InitSlice ==
    /\ room = createRoom(HumanId(1), Options(2, FALSE, 0, "normal", 3), SlicePickups,
                         1, << >>)
    /\ clock = T0
    /\ last = [op |-> "create", by |-> HumanId(1), ok |-> TRUE, from |-> "lobby"]
    /\ used = {}

NextSlice ==
    \/ RoomJoin(HumanId(2), 2, << >>) /\ Within(0)
    \/ /\ isFull(room)
       /\ MatchStart(HumanId(1), 0, << 1, 2 >>)
       /\ Within(0)
    \/ /\ last.op = "tick" /\ Holding(room, HumanId(1))
       /\ clock <= T0 + SliceWindow
       /\ HumanId(1) \notin DOMAIN room.latestInputs
       /\ \E aim \in SliceAims : PlayerInput(HumanId(1), Slice(aim))
    \/ /\ last.op \in {"start", "tick", "input"}
       /\ Phase = "playing"
       /\ clock <= T0 + SliceWindow
       /\ HumanId(2) \notin DOMAIN room.latestInputs
       /\ PlayerInput(HumanId(2), ShootLeft)
    \/ /\ Phase = "playing"
       /\ Tick(TICK_MS, << >>, << >>)
       /\ Within(SliceHorizon)
    \/ \E i \in 1..Len(room.timers) :
          /\ room.timers[i].dueMs <= clock
          /\ RespawnTimer(i, 2)

SpecSlice == InitSlice /\ [][NextSlice]_vars

\* ------------------------------------------------------------------------
\* Properties of the slashes (in the behaviours of the void slice)
\* ------------------------------------------------------------------------
\* the slashes of w that reflect in the tick: in flight after the move, with
\* a direction and with budget left
Reflectors(w) ==
    {i \in 1..Len(w.r.bullets) :
        /\ w.r.bullets[i].isSlash
        /\ w.r.bullets[i].id \notin w.removeIds
        /\ w.r.bullets[i].reflectsLeft # Undefined
        /\ w.r.bullets[i].reflectsLeft > 0
        /\ hypot(w.r.bullets[i].vx, w.r.bullets[i].vy) > 0}
\* the projectiles of w the slash reflects: not slashes, in flight after
\* the move, their circle overlapping the circle of the slash
ReflectedBy(w, slash) ==
    {i \in 1..Len(w.r.bullets) :
        LET bullet == w.r.bullets[i]
            reach == BulletRadius(slash) + BulletRadius(bullet)
        IN  /\ ~bullet.isSlash
            /\ bullet.id \notin w.removeIds
            /\ distanceSq(bullet.x, bullet.y, slash.x, slash.y) <= reach * reach}
\* the projectiles the tick of this step has put in the place of the
\* reflected one
MadeFrom(bullet) ==
    {i \in 1..Len(room'.bullets) :
        /\ ~Has(room.bullets, room'.bullets[i].id)
        /\ Len(room'.bullets[i].id) = Len(bullet.id) + 2
        /\ SubSeq(room'.bullets[i].id, 1, Len(bullet.id)) = bullet.id}
\* the tick of this step deletes the projectile the slash reflects and puts
\* one projectile in its place, which goes along the direction of the slash
\* at 1.2 x the speed of the reflected one, with the ttl of the reflected one
\* (120 ms at least) and with the owner and the root of the given projectile
Replaced(slash, bullet, owner) ==
    /\ ~Has(room'.bullets, bullet.id)
    /\ Cardinality(MadeFrom(bullet)) = 1
    /\ \A i \in MadeFrom(bullet) :
          LET made == room'.bullets[i]
              sd == UnitVec(slash.vx, slash.vy)
              speed == hypot(bullet.vx, bullet.vy)
          IN  /\ made.ownerId = owner.ownerId
              /\ made.ownerRootId = owner.ownerRootId
              /\ made.ttlMs = Max(REFLECT_MIN_TTL_MS, bullet.ttlMs)
              /\ made.vx = MulDiv(sd.nx * SLASH_REFLECT_SPEED_MULT, speed, 100000)
              /\ made.vy = MulDiv(sd.ny * SLASH_REFLECT_SPEED_MULT, speed, 100000)
              /\ ~made.isSlash
\* the tick of this step takes one off the budget of the slash for every
\* projectile it reflects
Spent(w, slash) ==
    /\ Has(room'.bullets, slash.id)
    /\ Get(room'.bullets, slash.id).reflectsLeft =
          slash.reflectsLeft - Cardinality(ReflectedBy(w, slash))

\* C29: a slash with budget left that reflects a projectile: the projectile
\* is deleted, exactly one new projectile replaces it, with the owner and the
\* root of the reflected projectile, a ttl of max(120 ms, its ttl), going
\* along the direction of the slash at 1.2 x its speed, and the budget of
\* the slash goes down by one for it.
C29_ReflectedKeepsOwner ==
    [][last'.op = "tick" =>
          \A w \in {InFlight(room, clock', Max(1, clock' - room.lastTickMs))} :
          \A si \in Reflectors(w) :
             /\ Spent(w, w.r.bullets[si])
             /\ \A bi \in ReflectedBy(w, w.r.bullets[si]) :
                   Replaced(w.r.bullets[si], w.r.bullets[bi], w.r.bullets[bi])]_vars

\* C29, as the engine does it: the new projectile has the owner and the
\* root of the slash; the rest is as stated.
C29_ReflectedToSlasher ==
    [][last'.op = "tick" =>
          \A w \in {InFlight(room, clock', Max(1, clock' - room.lastTickMs))} :
          \A si \in Reflectors(w) :
             /\ Spent(w, w.r.bullets[si])
             /\ \A bi \in ReflectedBy(w, w.r.bullets[si]) :
                   Replaced(w.r.bullets[si], w.r.bullets[bi], w.r.bullets[si])]_vars

\* a projectile of the host that is not a slash is in flight, the host has
\* never shot: the slash has sent back a projectile of the second player
C29_Witness ==
    /\ last.op = "tick"
    /\ \E i \in 1..Len(room.bullets) :
          /\ ~room.bullets[i].isSlash
          /\ room.bullets[i].ownerId = HumanId(1)
          /\ room.bullets[i].ownerRootId = HumanId(1)
          /\ room.bullets[i].vx > 0
    /\ \E i \in 1..Len(room.bullets) :
          /\ room.bullets[i].isSlash
          /\ room.bullets[i].reflectsLeft < SLASH_REFLECTS
\* ... the reflected projectile had less than 120 ms left
ReflectedAtFloor ==
    /\ last.op = "tick"
    /\ \E i \in 1..Len(room.bullets) :
          /\ ~room.bullets[i].isSlash
          /\ room.bullets[i].ownerId = HumanId(1)
          /\ room.bullets[i].ttlMs = REFLECT_MIN_TTL_MS
\* ... the second player is hit by what it shot, the slash being 100 units
\* away or more
HitByOwnShot ==
    /\ last.op = "tick"
    /\ \E i \in 1..Len(room.events) :
          /\ room.events[i].type = "hit"
          /\ room.events[i].targetId = HumanId(2)
          /\ room.events[i].byRootId = HumanId(1)
    /\ \E i \in 1..Len(room.bullets) :
          /\ room.bullets[i].isSlash
          /\ room.bullets[i].x + U(100) < PlayerOf(room, HumanId(2)).x

\* C30: a slash is not removed for leaving the arena: a slash whose time is
\* not up after the move of the tick is in the live set after the tick.
C30_SlashNeverCulled ==
    [][last'.op = "tick" =>
          \A i \in 1..Len(room.bullets) :
             /\ room.bullets[i].isSlash
             /\ room.bullets[i].ttlMs - Max(1, clock' - room.lastTickMs) > 0
             => Has(room'.bullets, room.bullets[i].id)]_vars

\* the host has sent its slash to the left, and no slash is in flight
\* although less than a third of the ttl of a slash has passed since
C30_Witness ==
    /\ last.op = "tick"
    /\ HumanId(1) \in DOMAIN room.latestInputs
    /\ room.latestInputs[HumanId(1)].aim.x = 0
    /\ ~Holding(room, HumanId(1))
    /\ \A i \in 1..Len(room.bullets) : ~room.bullets[i].isSlash
    /\ 3 * (clock - T0) < SLASH_TTL_MS

\* ------------------------------------------------------------------------
\* The end of a match with projectiles in flight: two players at the first
\* two spawn points; the first tick comes LingerStall tick periods after the
\* start, LingerLead ms before the match ends; the host then shoots to the
\* right or to the left and may hold its fire again. The room ticks on for
\* LingerTail ms after the end, longer than a projectile lasts.
\* ------------------------------------------------------------------------
\* the stall, in ticks: LingerLead ms short of the default duration
LingerStall == 5988
LingerLead == 600
\* the room ticks until the end of the match + LingerTail
LingerTail == 1500
\* the projectiles the host can have shot: b0 .. b(LingerShots - 1)
LingerShots == 4

HoldFire == Input(2, NoKeys, U(ARENA_W), U(60), FALSE, FALSE)

InitLinger ==
    /\ room = createRoom(HumanId(1), Options(2, FALSE, 0, "normal", 3), FarPickups,
                         1, << >>)
    /\ clock = T0
    /\ last = [op |-> "create", by |-> HumanId(1), ok |-> TRUE, from |-> "lobby"]
    /\ used = {}

\* the ticks of the room
LingerTicks ==
    \/ /\ room.lastTickMs = T0
       /\ Phase = "playing"
       /\ Tick(LingerStall * TICK_MS, << >>, << >>)
    \/ /\ clock >= T0 + LingerStall * TICK_MS
       /\ Tick(TICK_MS, << >>, << >>)
       /\ Within(LingerStall * TICK_MS + LingerLead + LingerTail)

NextLinger ==
    \/ RoomJoin(HumanId(2), 2, << >>) /\ Within(0)
    \/ /\ isFull(room)
       /\ MatchStart(HumanId(1), 0, << 1, 2 >>)
       /\ Within(0)
    \/ /\ last.op = "tick" /\ Phase = "playing"
       /\ HumanId(1) \notin DOMAIN room.latestInputs
       /\ \E aim \in SliceAims : PlayerInput(HumanId(1), Shoot(aim))
    \/ /\ last.op = "tick" /\ Phase = "playing"
       /\ HumanId(1) \in DOMAIN room.latestInputs
       /\ room.latestInputs[HumanId(1)].shoot
       /\ PlayerInput(HumanId(1), HoldFire)
    \/ LingerTicks

SpecLinger == InitLinger /\ [][NextLinger]_vars

\* a tick is due: LingerTicks is enabled
TickDue ==
    /\ room.ticking
    /\ \/ room.lastTickMs = T0 /\ Phase = "playing"
       \/ /\ clock >= T0 + LingerStall * TICK_MS
          /\ room.lastTickMs + TICK_MS <= T0 + LingerStall * TICK_MS + LingerLead + LingerTail
\* the interval timer of the room fires for as long as the room is there:
\* weak fairness of the ticks, with the enabling condition written out
SpecLingerFair == SpecLinger /\ ([]<>(~TickDue) \/ []<><<LingerTicks>>_vars)

\* ------------------------------------------------------------------------
\* Properties of the projectiles at the end of a match
\* ------------------------------------------------------------------------
LingerBullets == {<< "b", n >> : n \in 0..(LingerShots - 1)}

\* C31: while the room ticks every projectile of the live set goes in the
\* end. In terms of single ticks: every tick of the room takes the time since
\* the last tick off the ttl of every projectile it leaves in the live set,
\* and leaves none there whose ttl is used up; so a projectile is gone once
\* the room has ticked for as long as its ttl.
C31_EveryProjectileGoes ==
    [][last'.op = "tick" /\ room.ticking =>
          \A i \in 1..Len(room.bullets) :
             Has(room'.bullets, room.bullets[i].id)
             => /\ Get(room'.bullets, room.bullets[i].id).ttlMs
                      = room.bullets[i].ttlMs - Max(1, clock' - room.lastTickMs)
                /\ Get(room'.bullets, room.bullets[i].id).ttlMs > 0]_vars

\* ... as a property of the behaviours in which the room ticks whenever a
\* tick is due: a projectile in the live set is later not in it
GoesInTheEnd ==
    \A id \in LingerBullets :
       (room.ticking /\ Has(room.bullets, id)) ~> ~Has(room.bullets, id)
\* ... as long as the match is played: a projectile in the live set is later
\* not in it, or the match is over
GoesWhilePlaying ==
    \A id \in LingerBullets :
       (room.ticking /\ Has(room.bullets, id)) ~> (~Has(room.bullets, id) \/ Phase # "playing")
\* a tick of a room whose match is not played leaves the live set as it is
IdleTickKeepsBullets ==
    [][last'.op = "tick" /\ Phase # "playing" => room'.bullets = room.bullets]_vars
\* the ticks of a played match take the time since the last tick off the ttl
\* of every projectile they leave in the live set
TtlRunsDown ==
    [][last'.op = "tick" /\ Phase = "playing" =>
          \A i \in 1..Len(room.bullets) :
             Has(room'.bullets, room.bullets[i].id)
             => Get(room'.bullets, room.bullets[i].id).ttlMs
                   = room.bullets[i].ttlMs - Max(1, clock' - room.lastTickMs)]_vars

\* the match has been over for longer than a projectile lasts, the room has
\* ticked since, and a projectile is in the live set
C31_Witness ==
    /\ last.op = "tick"
    /\ room.ticking
    /\ Phase = "ended"
    /\ clock > room.match.endsAtMs + BULLET_TTL_MS
    /\ room.lastTickMs = clock
    /\ room.bullets # << >>

\* ------------------------------------------------------------------------
\* Linked portals: both players stand on the linked portals at the first
\* spawn point. The host, once it holds them, shoots to the right and asks
\* for its item, which puts endpoint a where it stands, and then places
\* endpoint b; the second player, with 1 hp, starts to walk to the right at
\* some tick.
\* ------------------------------------------------------------------------
\* no tick is considered after T0 + PortalHorizon
PortalHorizon == 2600
\* the second player starts to walk, and endpoint b is placed, not later
\* than T0 + PortalWindow
PortalWindow == 500

PortalPickups == AtSpawn(1, << "linked_portals" >>) \o SubSeq(FarPickups, 1, 5)
\* where endpoint b is placed
PortalEnds == {[x |-> U(300), y |-> U(60)], [x |-> U(132), y |-> U(60)]}

InitPortal ==
    /\ room = createRoom(HumanId(1), Options(2, FALSE, 0, "normal", 1), PortalPickups,
                         1, << >>)
    /\ clock = T0
    /\ last = [op |-> "create", by |-> HumanId(1), ok |-> TRUE, from |-> "lobby"]
    /\ used = {}

NextPortal ==
    \/ RoomJoin(HumanId(2), 1, << >>) /\ Within(0)
    \/ /\ isFull(room)
       /\ MatchStart(HumanId(1), 0, << 1, 1 >>)
       /\ Within(0)
    \/ /\ last.op = "tick" /\ Holding(room, HumanId(1))
       /\ HumanId(1) \notin DOMAIN room.latestInputs
       /\ PlayerInput(HumanId(1), Fire(1))
    \/ \E b \in PortalEnds :
          /\ last.op = "tick"
          /\ HumanId(1) \in DOMAIN room.pendingPortals
          /\ clock <= T0 + PortalWindow
          /\ PortalPlaceB(HumanId(1), b.x, b.y, 0)
    \/ /\ last.op \in {"tick", "portal_place"}
       /\ clock <= T0 + PortalWindow
       /\ HumanId(2) \notin DOMAIN room.latestInputs
       /\ PlayerInput(HumanId(2), Stroll)
    \/ /\ Phase = "playing"
       /\ \A i \in 1..Len(room.timers) : room.timers[i].dueMs > clock
       /\ Tick(TICK_MS, << >>, << >>)
       /\ Within(PortalHorizon)
    \/ \E i \in 1..Len(room.timers) :
          /\ room.timers[i].dueMs <= clock
          /\ RespawnTimer(i, 1)

SpecPortal == InitPortal /\ [][NextPortal]_vars

\* ------------------------------------------------------------------------
\* Properties of the portals and the entities (in the behaviours of the
\* linked portals, which have one portal at most)
\* ------------------------------------------------------------------------
\* the room in the tick of this step when updatePortalEntities is called
BeforePortals(r, nowMs, dtMs) ==
    updatePortals(
      updateEchoes(
        updateZones(
          collectPickups(
            entityUpdates(humansFrom(beginTick(r, nowMs), Ids(r.players), 1, nowMs, dtMs),
                          nowMs, dtMs, r.match.phase = "playing", << >>),
            nowMs),
          nowMs),
        nowMs, dtMs, r.match.phase = "playing"),
      nowMs)
\* the tick of this step has teleported the entity through the portal: it
\* has set the cooldown of the two
Teleported(entity, portal) ==
    /\ << entity.id, portal.id >> \in DOMAIN room'.portalCooldownUntilMs
    /\ room'.portalCooldownUntilMs[<< entity.id, portal.id >>]
          = clock' + PORTAL_ENTITY_COOLDOWN_MS
\* the endpoint opposite to the one whose circle holds the entity
Opposite(entity, portal) ==
    IF isInsideCircle(entity.x, entity.y, portal.a.x, portal.a.y,
                      portal.a.r + U(PLAYER_RADIUS))
    THEN portal.b ELSE portal.a
Touching(entity, portal) ==
    \/ isInsideCircle(entity.x, entity.y, portal.a.x, portal.a.y,
                      portal.a.r + U(PLAYER_RADIUS))
    \/ isInsideCircle(entity.x, entity.y, portal.b.x, portal.b.y,
                      portal.b.r + U(PLAYER_RADIUS))
\* the time of the last teleport of the entity through the portal, as far as
\* the room knows (0: none)
LastTeleport(r, entity, portal) ==
    IF << entity.id, portal.id >> \in DOMAIN r.portalCooldownUntilMs
    THEN r.portalCooldownUntilMs[<< entity.id, portal.id >>] - PORTAL_ENTITY_COOLDOWN_MS
    ELSE 0
\* the entity is where it was when updatePortalEntities was called
Stayed(entity) ==
    Has(room'.players, entity.id)
    => /\ PlayerOf(room', entity.id).x = entity.x
       /\ PlayerOf(room', entity.id).y = entity.y

\* C32: a tick at time t that teleports an entity through a committed
\* portal puts it on the centre of the opposite endpoint, and the last
\* teleport of the entity through that portal is 250 ms old or more; the
\* time of the last teleport is kept as long as the entity and the portal
\* are there; an entity that is dead, or that is not teleported, is left
\* where it is.
C32_TeleportCooldown ==
    [][/\ last'.op = "tick" =>
             \A v \in {BeforePortals(room, clock', Max(1, clock' - room.lastTickMs))} :
             \A ei \in 1..Len(v.players), pi \in 1..Len(v.portals) :
                IF Teleported(v.players[ei], v.portals[pi])
                THEN /\ v.players[ei].alive
                     /\ v.portals[pi].hasB
                     /\ Touching(v.players[ei], v.portals[pi])
                     /\ PlayerOf(room', v.players[ei].id).x
                           = Opposite(v.players[ei], v.portals[pi]).x
                     /\ PlayerOf(room', v.players[ei].id).y
                           = Opposite(v.players[ei], v.portals[pi]).y
                     /\ clock' >= LastTeleport(room, v.players[ei], v.portals[pi])
                                     + 250
                ELSE /\ Stayed(v.players[ei])
                     /\ LastTeleport(room', v.players[ei], v.portals[pi])
                           = LastTeleport(room, v.players[ei], v.portals[pi])
       /\ last'.op # "tick" =>
             \A ei \in 1..Len(room.players), pi \in 1..Len(room.portals) :
                Has(room'.players, room.players[ei].id) /\ Has(room'.portals, room.portals[pi].id)
                => LastTeleport(room', room.players[ei], room.portals[pi])
                      = LastTeleport(room, room.players[ei], room.portals[pi])]_vars

\* the second player has been teleported twice through the portal: from a to
\* b by an earlier tick, and back to a by this one
C32_Witness ==
    /\ last.op = "tick"
    /\ Len(room.portals) = 1
    /\ LastTeleport(room, PlayerOf(room, HumanId(2)), room.portals[1]) = clock
    /\ PlayerOf(room, HumanId(2)).x = room.portals[1].a.x
    /\ PlayerOf(room, HumanId(2)).y = room.portals[1].a.y
\* ... the second player lies dead in the circle of an endpoint, and its
\* last teleport is more than 250 ms old
DeadInPortal ==
    /\ last.op = "tick"
    /\ Len(room.portals) = 1
    /\ ~PlayerOf(room, HumanId(2)).alive
    /\ Touching(PlayerOf(room, HumanId(2)), room.portals[1])
    /\ clock > LastTeleport(room, PlayerOf(room, HumanId(2)), room.portals[1]) + 250
\* ... an entity stands in the circle of an endpoint, its last teleport less
\* than 250 ms old
HeldByCooldown ==
    /\ last.op = "tick"
    /\ Len(room.portals) = 1
    /\ \E id \in Humans(2) :
          /\ PlayerOf(room, id).alive
          /\ Touching(PlayerOf(room, id), room.portals[1])
          /\ clock > LastTeleport(room, PlayerOf(room, id), room.portals[1])
          /\ LastTeleport(room, PlayerOf(room, id), room.portals[1]) > 0

\* ------------------------------------------------------------------------
\* Echoes and the comings and goings of their owners: a room for three,
\* filled up with bots, with echoes lying on the first spawn point, where
\* everybody is put. Humans join and leave, use what they hold, and the host
\* starts and restarts the match.
\* ------------------------------------------------------------------------
\* no tick is considered after T0 + OrphanHorizon
OrphanHorizon == 400
\* the third human joins, humans leave, and the match is restarted, at
\* multiples of OrphanEvery ms; items are used in the first two ticks
OrphanEvery == 200

OrphanPickups == AtSpawn(1, << "echo", "echo", "echo" >>) \o SubSeq(FarPickups, 1, 3)
OrphanPlayers == Humans(3)

InitOrphan ==
    /\ room = createRoom(HumanId(1), Options(3, TRUE, 1, "normal", 3), OrphanPickups,
                         1, RosterSpawns)
    /\ clock = T0
    /\ last = [op |-> "create", by |-> HumanId(1), ok |-> TRUE, from |-> "lobby"]
    /\ used = {}

NextOrphan ==
    \/ RoomJoin(HumanId(2), 1, RosterSpawns) /\ Within(0)
    \/ /\ BotsLeft /\ clock > T0 /\ (clock - T0) % OrphanEvery = 0
       /\ RoomJoin(HumanId(3), 1, RosterSpawns)
    \/ \E p \in OrphanPlayers :
          /\ BotsLeft /\ clock > T0 /\ (clock - T0) % OrphanEvery = 0
          /\ InRoom(p)
          /\ Disconnect(p, RosterSpawns)
    \/ \E p \in OrphanPlayers, spawns \in SpawnDraws(Len(room.players), {1}) :
          /\ hostInLobby(room, p)
          /\ MatchStart(p, 0, spawns)
          /\ Within(0)
    \/ \E p \in OrphanPlayers, spawns \in SpawnDraws(Len(room.players), {1}) :
          /\ hostOutOfLobby(room, p)
          /\ clock > T0 /\ (clock - T0) % OrphanEvery = 0
          /\ last.op = "tick"
          /\ MatchRestart(p, spawns)
    \/ \E p \in OrphanPlayers :
          /\ last.op = "tick" /\ InRoom(p) /\ Holding(room, p)
          /\ clock <= T0 + 2 * TICK_MS
          /\ p \notin DOMAIN room.latestInputs
          /\ PlayerInput(p, UseItem(1))
    \/ /\ BotsLeft
       /\ Tick(TICK_MS, RosterJitter, RosterSpawns)
       /\ Within(OrphanHorizon)

SpecOrphan == InitOrphan /\ [][NextOrphan]_vars

\* ------------------------------------------------------------------------
\* Properties of the echoes and their owners
\* ------------------------------------------------------------------------
\* the echoes among the entities
Echoes(r) == {i \in 1..Len(r.players) : r.players[i].isEcho}

\* C33: the owner of every echo is an entity of the room (alive or dead)
\* that is not an echo; so no echo owns an echo.
C33_EchoHasRoot ==
    \A i \in Echoes(room) :
       /\ Has(room.players, room.players[i].ownerId)
       /\ ~PlayerOf(room, room.players[i].ownerId).isEcho

\* an echo is in the room, and a human that has used its item has left
C33_Witness ==
    /\ Echoes(room) # {}
    /\ \E p \in OrphanPlayers :
          /\ << p, 1 >> \in used
          /\ ~Has(room.players, p)
\* ... an echo is in the room, a bot has made way for a human since the
\* match began
EchoAndEviction ==
    /\ Echoes(room) # {}
    /\ last.op = "join" /\ last.ok
    /\ room.botSeq > 0 /\ Bots(room) = {}

\* ------------------------------------------------------------------------
\* The host and the humans (in the behaviours of the roster)
\* ------------------------------------------------------------------------
\* the humans among the entities: neither bots nor echoes
HumansIn(r) ==
    {r.players[i].id : i \in {j \in 1..Len(r.players) :
                                 ~r.players[j].isEcho /\ ~r.players[j].isBot}}

\* C34: whenever a human is in the room, the host is a human that is in the
\* room.
C34_HostIsHuman ==
    room.ticking /\ HumansIn(room) # {} => HostId \in HumansIn(room)

\* the room has ticked with a bot for a host and a human in it, who can
\* neither configure, start nor restart the match
C34_Witness ==
    /\ last.op = "tick"
    /\ HumansIn(room) # {}
    /\ Has(room.players, HostId)
    /\ PlayerOf(room, HostId).isBot
\* as long as no human has left, the host is a human of the room
HostIsHumanAtFirst ==
    [][(\A p \in RosterPlayers : p \in HumansIn(room) => p \in HumansIn(room'))
       /\ HostId \in HumansIn(room)
       => room'.match.hostId \in HumansIn(room')]_vars

\* ------------------------------------------------------------------------
\* Deaths, restarts and respawn timers: two players with 1 hp at the first
\* spawn point; the host shoots to the right, the second player walks into
\* the shots. The host may restart the match, and start the next one at
\* once, at multiples of ReviveEvery ms while a respawn is scheduled. The
\* timers fire when they are due.
\* ------------------------------------------------------------------------
\* no tick is considered after T0 + ReviveHorizon
ReviveHorizon == 2300
ReviveEvery == 250
\* at most MaxRestarts restarts
MaxRestarts == 2

InitRevive ==
    /\ room = createRoom(HumanId(1), Options(2, FALSE, 0, "normal", 1), FarPickups,
                         1, << >>)
    /\ clock = T0
    /\ last = [op |-> "create", by |-> HumanId(1), ok |-> TRUE, from |-> "lobby"]
    /\ used = {}

\* the respawns scheduled
Respawns(r) == {i \in 1..Len(r.timers) : r.timers[i].kind = "respawn"}

NextRevive ==
    \/ RoomJoin(HumanId(2), 1, << >>) /\ Within(0)
    \/ /\ HumanId(1) \notin DOMAIN room.latestInputs
       /\ PlayerInput(HumanId(1), Shoot([x |-> U(ARENA_W), y |-> U(60)]))
       /\ Within(0)
    \/ /\ HumanId(2) \notin DOMAIN room.latestInputs
       /\ PlayerInput(HumanId(2), WalkRight)
       /\ Within(0)
    \/ /\ isFull(room)
       /\ Phase = "lobby"
       /\ MatchStart(HumanId(1), 0, << 1, 1 >>)
    \/ /\ Phase = "playing"
       /\ last.op = "tick"
       /\ Respawns(room) # {}
       /\ Len(room.timers) <= MaxRestarts
       /\ (clock - T0) % ReviveEvery = 0
       /\ MatchRestart(HumanId(1), << 1, 1 >>)
    \/ /\ Phase = "playing"
       /\ \A i \in 1..Len(room.timers) : room.timers[i].dueMs > clock
       /\ Tick(TICK_MS, << >>, << >>)
       /\ Within(ReviveHorizon)
    \/ \E i \in 1..Len(room.timers) :
          /\ room.timers[i].dueMs <= clock
          /\ RespawnTimer(i, 1)

SpecRevive == InitRevive /\ [][NextRevive]_vars

\* ------------------------------------------------------------------------
\* Properties of the revivals
\* ------------------------------------------------------------------------
\* the step revives the entity
Revived(p) ==
    /\ Has(room.players, p) /\ ~PlayerOf(room, p).alive
    /\ Has(room'.players, p) /\ PlayerOf(room', p).alive
\* the time of the most recent death of a dead entity with a respawn
\* scheduled: every death of a played match schedules one, RESPAWN_MS later
LastDeath(r, p) ==
    LET dues == {r.timers[i].dueMs : i \in {j \in Respawns(r) : r.timers[j].id = p}}
    IN  (CHOOSE d \in dues : \A e \in dues : e <= d) - RESPAWN_MS
Scheduled(r, p) == \E i \in Respawns(r) : r.timers[i].id = p

\* C35: a dead entity becomes alive only through a match start or restart,
\* or through a respawn 1500 ms or more after its most recent death.
C35_RevivedInTime ==
    [][\A p \in Humans(2) :
          Revived(p) =>
             \/ last'.op \in {"start", "restart"}
             \/ /\ last'.op = "respawn"
                /\ Scheduled(room, p)
                /\ clock' >= LastDeath(room, p) + 1500]_vars

\* a respawn has revived the second player while another respawn, of a
\* later death, is scheduled for it
C35_Witness ==
    /\ last.op = "respawn" /\ last.by = HumanId(2)
    /\ PlayerOf(room, HumanId(2)).alive
    /\ Scheduled(room, HumanId(2))
    /\ clock < LastDeath(room, HumanId(2)) + 1500
\* in a match that is never restarted the revivals come in time
RevivedInTimeUnlessRestarted ==
    [][\A p \in Humans(2) :
          Revived(p) /\ last'.op = "respawn" /\ Len(room.timers) = 1
          => clock' >= LastDeath(room, p) + 1500]_vars
\* an entity comes to life through starts, restarts and respawns only
RevivedByThese ==
    [][\A p \in Humans(2) :
          Revived(p) => last'.op \in {"start", "restart", "respawn"}]_vars

\* ------------------------------------------------------------------------
\* The hp of the entities and their alive flag (in the behaviours of the
\* rift sniper and of the orbital strike)
\* ------------------------------------------------------------------------
\* C36: the hp of every entity is between 0 and its maxHp, and an entity is
\* dead exactly when its hp is 0.
C36_DeadIffNoHp ==
    \A i \in 1..Len(room.players) :
       /\ 0 <= room.players[i].hp
       /\ room.players[i].hp <= room.players[i].maxHp
       /\ ~room.players[i].alive <=> room.players[i].hp = 0

\* the beam has killed an entity in this tick, which is dead with all the
\* hp it had
C36_Witness ==
    /\ last.op = "tick"
    /\ HasEvent(room, "death")
    /\ \E i \in 1..Len(room.players) :
          /\ ~room.players[i].alive
          /\ room.players[i].hp = room.players[i].maxHp
\* the hp of every entity is between 0 and its maxHp
HpInRange ==
    \A i \in 1..Len(room.players) :
       0 <= room.players[i].hp /\ room.players[i].hp <= room.players[i].maxHp
\* an entity without hp is dead
NoHpIsDead ==
    \A i \in 1..Len(room.players) : room.players[i].hp = 0 => ~room.players[i].alive

\* ------------------------------------------------------------------------
\* Properties of an entity killed by its own bouncer or its own strike
\* ------------------------------------------------------------------------
\* the events of the room report the death of id with id itself as the root
\* credited
SelfKilled(r, id) ==
    \E i \in 1..Len(r.events) :
       r.events[i].type = "death" /\ r.events[i].id = id /\ r.events[i].byRootId = id
\* the deaths of other entities that the events of the room credit to id
KillsOfOthersBy(r, id) ==
    Cardinality({i \in 1..Len(r.events) :
                    /\ r.events[i].type = "death"
                    /\ r.events[i].byRootId = id
                    /\ r.events[i].id # id})

\* C37: an entity's kill counter never increases as a result of its own
\* death: in a tick in which an entity dies of a projectile whose owner-root
\* it is, or of a strike it has cast, its deaths grow by one, and the kills
\* of every entity grow by the number of deaths of other entities that the
\* tick credits to it, and by no more.
C37_NoKillForOwnDeath ==
    [][last'.op = "tick" =>
          \A i \in Staying(room, room') :
             /\ SelfKilled(room', room.players[i].id) =>
                   PlayerOf(room', room.players[i].id).deaths = room.players[i].deaths + 1
             /\ PlayerOf(room', room.players[i].id).kills
                   = room.players[i].kills + KillsOfOthersBy(room', room.players[i].id)]_vars

\* the tick in which the host dies of the strike it has cast
C37_Witness ==
    /\ last.op = "tick"
    /\ SelfKilled(room, HumanId(1))
    /\ ~PlayerOf(room, HumanId(1)).alive
    /\ PlayerOf(room, HumanId(1)).deaths = 1
    /\ \E i \in 1..Len(room.events) : room.events[i].type = "strike_boom"
\* ... and the host is the only one to die in that tick, yet has a kill
SelfKillCredited ==
    /\ C37_Witness
    /\ KillsOfOthersBy(room, HumanId(1)) = 0
    /\ PlayerOf(room, HumanId(1)).kills = 1
\* the deaths of an entity killed by itself grow by one
OwnDeathCounted ==
    [][last'.op = "tick" =>
          \A i \in Staying(room, room') :
             SelfKilled(room', room.players[i].id) =>
                PlayerOf(room', room.players[i].id).deaths = room.players[i].deaths + 1]_vars
\* the kills of an entity that a tick does not kill by its own hand grow by
\* the number of deaths the tick credits to it
KillsOfTheOthers ==
    [][last'.op = "tick" =>
          \A i \in Staying(room, room') :
             ~SelfKilled(room', room.players[i].id) =>
                PlayerOf(room', room.players[i].id).kills
                   = room.players[i].kills + KillsOfOthersBy(room', room.players[i].id)]_vars

\* ------------------------------------------------------------------------
\* The last ticks of a match: two players on the first spawn point, where
\* an orbital strike lies; the first tick comes FinalLead ms before the
\* default duration is over, on the grid of the match's start or FinalSkew
\* ms off it; the host then fires and asks for the strike, confirms it on
\* the spawn point at a tick or FinalLag ms after one, and the second player
\* starts to walk to the right during the last FinalRun ms
\* ------------------------------------------------------------------------
\* the stall, in ticks: FinalLead ms short of the default duration
FinalStall == 5976
FinalLead == 1200
\* the room ticks until the end of the match + FinalTail
FinalTail == 200
\* the ticks are on the grid of the start, or FinalSkew ms after it
FinalSkew == 20
\* a confirm is handled at a tick's time, or FinalLag ms after it
FinalLag == 40
\* the second player starts to walk no earlier than FinalRun ms before the end
FinalRun == 400
\* the host's first input is sent before T0 + stall + FinalAsk
FinalAsk == 450

FinalPickups == AtSpawn(1, << "orbital_strike" >>) \o SubSeq(FarPickups, 1, 5)
FinalHps == {1, 3}

InitFinal ==
    /\ \E maxHp \in FinalHps :
          room = createRoom(HumanId(1), Options(2, FALSE, 0, "normal", maxHp),
                            FinalPickups, 1, << >>)
    /\ clock = T0
    /\ last = [op |-> "create", by |-> HumanId(1), ok |-> TRUE, from |-> "lobby"]
    /\ used = {}

NextFinal ==
    \/ RoomJoin(HumanId(2), 1, << >>) /\ Within(0)
    \/ /\ isFull(room)
       /\ MatchStart(HumanId(1), 0, << 1, 1 >>)
       /\ Within(0)
    \/ \E skew \in {0, FinalSkew} :
          /\ room.lastTickMs = T0
          /\ Phase = "playing"
          /\ Tick(FinalStall * TICK_MS + skew, << >>, << >>)
    \/ /\ last.op = "tick"
       /\ HumanId(1) \notin DOMAIN room.latestInputs
       /\ PlayerInput(HumanId(1), Fire(1))
       /\ Within(FinalStall * TICK_MS + FinalAsk)
    \/ /\ last.op = "tick"
       /\ HumanId(2) \notin DOMAIN room.latestInputs
       /\ clock >= room.match.endsAtMs - FinalRun
       /\ PlayerInput(HumanId(2), Stroll)
    \/ \E e \in {0, FinalLag} :
          /\ last.op = "tick"
          /\ HumanId(1) \in DOMAIN room.pendingStrikes
          /\ StrikeConfirm(HumanId(1), U(60), U(60), e)
    \/ /\ clock >= T0 + FinalStall * TICK_MS
       /\ Tick(TICK_MS, << >>, << >>)
       /\ Within(FinalStall * TICK_MS + FinalLead + FinalTail)

SpecFinal == InitFinal /\ [][NextFinal]_vars

\* ------------------------------------------------------------------------
\* Properties of the steps at or after the end of the match
\* ------------------------------------------------------------------------
\* the step is a tick or a strike confirm of a started match, handled with
\* a timestamp at or after the match's endsAtMs
AtOrAfterEnd ==
    /\ last'.op \in {"tick", "strike_confirm"}
    /\ Phase # "lobby"
    /\ room.match.endsAtMs # Undefined
    /\ clock' >= room.match.endsAtMs
\* the step takes no hp, kills no entity and changes no score
NoDamageDone ==
    /\ \A i \in Staying(room, room') :
          Health(PlayerOf(room', room.players[i].id)) = Health(room.players[i])
    /\ last'.op = "tick" =>
          \A i \in 1..Len(room'.events) : room'.events[i].type \notin {"hit", "death"}

\* C38: no hp loss, death or kill is applied with a timestamp at or after
\* the match's endsAtMs: the tick that detects the end of the match, every
\* later tick, and every strike confirm handled at or after endsAtMs leave
\* the hp, alive flag, kills and deaths of every entity as they are, and the
\* ticks report no hit and no death.
C38_NoDamageAfterEnd ==
    [][AtOrAfterEnd => NoDamageDone]_vars

\* the tick that has detected the end of the match has killed the second
\* player with a projectile of the host
C38_Witness ==
    /\ last.op = "tick" /\ last.from = "playing" /\ Phase = "ended"
    /\ clock >= room.match.endsAtMs
    /\ DeathsOf(room, HumanId(2)) = 1
    /\ PlayerOf(room, HumanId(2)).hp = 0
    /\ PlayerOf(room, HumanId(1)).kills = 1
\* the tick that has detected the end of the match has resolved a strike
StrikeInTheLastTick ==
    /\ last.op = "tick" /\ last.from = "playing" /\ Phase = "ended"
    /\ \E i \in 1..Len(room.events) : room.events[i].type = "strike_boom"
    /\ DeathsOf(room, HumanId(1)) = 1
\* a strike confirm handled after endsAtMs, before the tick that detects
\* the end, has made a strike
LateConfirmCommits ==
    /\ last.op = "strike_confirm" /\ last.ok
    /\ clock > room.match.endsAtMs
    /\ room.strikes # << >>
\* the steps that find the match ended do no damage
NoDamageOnceEnded ==
    [][AtOrAfterEnd /\ Phase = "ended" => NoDamageDone]_vars
\* a strike confirm does no damage
NoDamageByConfirm ==
    [][last'.op = "strike_confirm" => NoDamageDone]_vars
\* a strike made at or after endsAtMs is never resolved
LateStrikeNeverResolved ==
    [][last'.op = "tick" =>
          \A i \in 1..Len(room.strikes) :
             room.strikes[i].explodeAtMs >= room.match.endsAtMs + STRIKE_MARK_MS =>
                \E j \in 1..Len(room'.strikes) : room'.strikes[j].id = room.strikes[i].id]_vars

\* ------------------------------------------------------------------------
\* A player leaves what it owns behind: two players, no bots, on the first
\* spawn point, where a pulse nova, an echo, an orbital strike and linked
\* portals lie. The host fires and uses what it gets; the second player
\* walks to the right or stays, uses what it gets, halts and walks again;
\* the strike and the portal are confirmed; either of them disconnects
\* after any tick.
\* ------------------------------------------------------------------------
\* no tick is considered after T0 + EvictHorizon
EvictHorizon == 500
\* no input is sent after T0 + EvictWindow
EvictWindow == 300

EvictPickups ==
    AtSpawn(1, << "pulse_nova", "echo", "orbital_strike", "linked_portals" >>)
      \o SubSeq(FarPickups, 1, 2)
EvictPlayers == Humans(2)

InitEvict ==
    /\ room = createRoom(HumanId(1), Options(2, FALSE, 0, "normal", 3), EvictPickups,
                         1, << >>)
    /\ clock = T0
    /\ last = [op |-> "create", by |-> HumanId(1), ok |-> TRUE, from |-> "lobby"]
    /\ used = {}

NextEvict ==
    \/ RoomJoin(HumanId(2), 1, << >>) /\ Within(0)
    \/ /\ isFull(room)
       /\ MatchStart(HumanId(1), 0, << 1, 1 >>)
       /\ Within(0)
    \/ /\ last.op = "start"
       /\ \E input \in {Walk, UseItem(1)} : PlayerInput(HumanId(2), input)
    \/ /\ last.op = "tick"
       /\ HumanId(2) \in DOMAIN room.latestInputs
       /\ room.latestInputs[HumanId(2)] = Halt
       /\ clock <= T0 + EvictWindow
       /\ PlayerInput(HumanId(2), Walk)
    \/ /\ last.op = "tick" /\ Holding(room, HumanId(1))
       /\ clock <= T0 + EvictWindow
       /\ PlayerInput(HumanId(1),
             Fire(IF HumanId(1) \in DOMAIN room.latestInputs
                  THEN room.latestInputs[HumanId(1)].seq + 1 ELSE 1))
    \/ /\ last.op = "tick" /\ Holding(room, HumanId(2))
       /\ clock <= T0 + EvictWindow
       /\ HumanId(2) \in DOMAIN room.latestInputs
       /\ room.latestInputs[HumanId(2)].seq = 1
       /\ PlayerInput(HumanId(2), Halt)
    \/ /\ last.op = "tick"
       /\ HumanId(1) \in DOMAIN room.pendingStrikes
       /\ StrikeConfirm(HumanId(1), U(300), U(60), 0)
    \/ /\ last.op = "tick"
       /\ HumanId(2) \in DOMAIN room.pendingPortals
       /\ PortalPlaceB(HumanId(2), U(300), U(60), 0)
    \/ \E p \in EvictPlayers :
          /\ last.op = "tick"
          /\ Disconnect(p, << >>)
    \/ /\ Phase = "playing" /\ last.op # "start"
       /\ Tick(TICK_MS, << >>, << >>)
       /\ Within(EvictHorizon)

SpecEvict == InitEvict /\ [][NextEvict]_vars

\* ------------------------------------------------------------------------
\* Properties of Room.removePlayer (a disconnect of these behaviours is a
\* call of removePlayer, and nothing else while an entity is left)
\* ------------------------------------------------------------------------
\* the entities of r that are neither p nor an echo of p
Others(r, p) ==
    {i \in 1..Len(r.players) :
        /\ r.players[i].id # p
        /\ ~(r.players[i].isEcho /\ r.players[i].ownerId = p)}
\* what the claim says of an entity that stays
Standing(q) == << q.x, q.y, q.hp, q.alive, q.kills, q.deaths, q.heldItem >>
\* r holds no entity, echo, projectile, strike or portal of p, pending or
\* not
OwnsNothing(r, p) ==
    /\ ~Has(r.players, p)
    /\ \A i \in 1..Len(r.players) : ~(r.players[i].isEcho /\ r.players[i].ownerId = p)
    /\ \A i \in 1..Len(r.echoes) : r.echoes[i].ownerId # p
    /\ \A i \in 1..Len(r.bullets) : r.bullets[i].ownerRootId # p
    /\ \A i \in 1..Len(r.strikes) : r.strikes[i].byId # p
    /\ \A i \in 1..Len(r.portals) : r.portals[i].ownerId # p
    /\ p \notin DOMAIN r.pendingStrikes
    /\ p \notin DOMAIN r.pendingPortals
\* r holds no input and no input history of p
NoInputs(r, p) ==
    /\ p \notin DOMAIN r.latestInputs
    /\ p \notin DOMAIN r.inputBuffer
    /\ p \notin DOMAIN r.lastUseItemSeq
\* the maps of r that hold a time for a player's id, or for the pair of a
\* player's id and another id, hold none for p
NoTimestamps(r, p) ==
    /\ p \notin DOMAIN r.lastShotAtMs
    /\ p \notin DOMAIN r.dashUntilMs
    /\ p \notin DOMAIN r.shieldUntilMs
    /\ \A k \in DOMAIN r.portalCooldownUntilMs : k[1] # p
    /\ \A k \in DOMAIN r.novaHitCooldown : k[2] # p
\* ... those keyed by the player's id, and the portal cooldowns
KeyedTimes(r, p) ==
    /\ p \notin DOMAIN r.lastShotAtMs
    /\ p \notin DOMAIN r.dashUntilMs
    /\ p \notin DOMAIN r.shieldUntilMs
    /\ \A k \in DOMAIN r.portalCooldownUntilMs : k[1] # p
\* the entities that are neither p nor an echo of p stay as they are
OthersStay(p) ==
    \A i \in Others(room, p) :
       /\ Has(room'.players, room.players[i].id)
       /\ Standing(PlayerOf(room', room.players[i].id)) = Standing(room.players[i])

\* C39: right after removePlayer(p) the room holds no entity with id p, no
\* echo owned by p, no projectile whose root is p, no strike, pending
\* strike, pending portal or portal of p, no input, input history or
\* timestamp kept for p; and the position, hp, alive flag, score and held
\* item of every other entity are what they were.
C39_RemovedWithoutTrace ==
    [][last'.op = "disconnect" =>
          /\ OwnsNothing(room', last'.by)
          /\ NoInputs(room', last'.by)
          /\ NoTimestamps(room', last'.by)
          /\ OthersStay(last'.by)]_vars

\* the second player, hit by the host's nova, has left; the host and its
\* projectiles are in the room, the time of the test of the burst against
\* the second player as well
C39_Witness ==
    /\ last.op = "disconnect" /\ last.by = HumanId(2)
    /\ Has(room.players, HumanId(1))
    /\ room.bullets # << >>
    /\ \E k \in DOMAIN room.novaHitCooldown : k[2] = HumanId(2)
\* all but the times of the nova tests is gone with the player
RemovedButNovaTests ==
    [][last'.op = "disconnect" =>
          /\ OwnsNothing(room', last'.by)
          /\ NoInputs(room', last'.by)
          /\ KeyedTimes(room', last'.by)
          /\ OthersStay(last'.by)]_vars

\* ------------------------------------------------------------------------
\* The RoomManager (roomManager.ts) and the sockets of index.ts: in the
\* behaviours of SpecManager the variable room holds the manager, that is
\* its map of rooms and its playerToRoom map, together with the sockets
\* that are connected and those that have been (a socket id is never given
\* twice); used holds the pairs << socket, n >> for the n-th room:create or
\* room:join the socket has sent. The rooms stay in the lobby.
\* ------------------------------------------------------------------------
\* the sockets that connect: HumanId(1) .. HumanId(MaxSockets)
MaxSockets == 2
\* the ids createRoomId draws: 1 .. MaxRooms
MaxRooms == 2
\* a socket sends at most MaxAsks room:create or room:join requests
MaxAsks == 2
\* no tick is considered after T0 + ManagerHorizon
ManagerHorizon == 100

Sockets == Humans(MaxSockets)
RoomIds == 1..MaxRooms
Rooms == room.rooms
Live == DOMAIN room.rooms
Asks(p) == Cardinality({n \in 1..MaxAsks : << p, n >> \in used})

\* Room.tick as a function of the room: the statements of Tick, for the
\* room r at nowMs
tick(r, nowMs, jitters, spawns) ==
    LET dtMs == Max(1, nowMs - r.lastTickMs)
        isPlaying == r.match.phase = "playing"
        r1 == humansFrom(beginTick(r, nowMs), Ids(r.players), 1, nowMs, dtMs)
        r2 == entityUpdates(r1, nowMs, dtMs, isPlaying, jitters)
        r2w == worldUpdates(r2, nowMs, dtMs, isPlaying)
        r3 == updateStrikes(r2w, nowMs)
        w3 == hitPass(reflectPass(integrateFrom(engineStart(r3), 1, dtMs), nowMs), nowMs)
        r4 == IF isPlaying THEN closeStep(w3) ELSE r3
    IN  botCheck(endMatch(r4, nowMs), nowMs, spawns)

\* RoomManager.createRoom and the ensureBots of the room:create handler
managerCreate(m, roomId, p, options, now) ==
    [m EXCEPT
       !.rooms = MapSet(@, roomId,
                    ensureBots(
                      addPlayer(
                        spawnPickups(NewRoom(options.maxPlayers, options.fillWithBots,
                                             options.botCount, options.botDifficulty,
                                             options.maxHp, p, now),
                                     FarPickups, 1),
                        p, SPAWN_POINTS[1]),
                      RosterSpawns)),
       !.playerToRoom = MapSet(@, p, roomId)]

\* the room:join handler lets the socket in: the room is there and, after
\* removeBotsForSpace(1) if it was full, it is not full
joinLetsIn(m, roomId) ==
    /\ roomId \in DOMAIN m.rooms
    /\ ~isFull(IF isFull(m.rooms[roomId]) THEN removeBotsForSpace(m.rooms[roomId], 1)
               ELSE m.rooms[roomId])
\* the room:join handler with RoomManager.joinRoom
managerJoin(m, roomId, p) ==
    IF roomId \notin DOMAIN m.rooms THEN m
    ELSE LET r1 == IF isFull(m.rooms[roomId]) THEN removeBotsForSpace(m.rooms[roomId], 1)
                   ELSE m.rooms[roomId]
         IN  IF isFull(r1) THEN [m EXCEPT !.rooms = MapSet(@, roomId, r1)]
             ELSE [m EXCEPT
                     !.rooms = MapSet(@, roomId,
                                  ensureBots(addPlayer(r1, p, SPAWN_POINTS[1]),
                                             RosterSpawns)),
                     !.playerToRoom = MapSet(@, p, roomId)]

\* RoomManager.removePlayer and the ensureBots of the disconnect handler
managerRemove(m, p) ==
    IF p \notin DOMAIN m.playerToRoom THEN m
    ELSE IF m.playerToRoom[p] \notin DOMAIN m.rooms
    THEN [m EXCEPT !.playerToRoom = MapDelete(@, p)]
    ELSE LET roomId == m.playerToRoom[p]
             r1 == removePlayer(m.rooms[roomId], p)
         IN  [m EXCEPT
                !.rooms = IF isEmpty(r1) THEN MapDelete(@, roomId)
                          ELSE MapSet(@, roomId, ensureBots(r1, RosterSpawns)),
                !.playerToRoom = MapDelete(@, p)]

Handled(op, by, ok) == last' = [op |-> op, by |-> by, ok |-> ok, from |-> "lobby"]

\* io.on("connection")
Connect(p) ==
    /\ p \notin room.seen
    /\ room' = [room EXCEPT !.sockets = @ \cup {p}, !.seen = @ \cup {p}]
    /\ Handled("connect", p, TRUE)
    /\ UNCHANGED << clock, used >>

\* socket.on("room:create")
ManagerCreate(p, roomId, fillWithBots) ==
    /\ p \in room.sockets
    /\ Asks(p) < MaxAsks
    /\ roomId \notin Live
    /\ room' = managerCreate(room, roomId, p, Options(2, fillWithBots, 1, "normal", 3),
                             clock)
    /\ Handled("create", p, TRUE)
    /\ used' = used \cup {<< p, Asks(p) + 1 >>}
    /\ UNCHANGED clock

\* socket.on("room:join")
ManagerJoin(p, roomId) ==
    /\ p \in room.sockets
    /\ Asks(p) < MaxAsks
    /\ room' = managerJoin(room, roomId, p)
    /\ Handled("join", p, joinLetsIn(room, roomId))
    /\ used' = used \cup {<< p, Asks(p) + 1 >>}
    /\ UNCHANGED clock

\* socket.on("disconnect")
ManagerDisconnect(p) ==
    /\ p \in room.sockets
    /\ room' = [managerRemove(room, p) EXCEPT !.sockets = @ \ {p}]
    /\ Handled("disconnect", p, TRUE)
    /\ UNCHANGED << clock, used >>

\* the setInterval callback of a room of the manager, at its due time or
\* later
ManagerTick(roomId) ==
    /\ roomId \in Live
    /\ Rooms[roomId].ticking
    /\ clock' = Max(clock, Rooms[roomId].lastTickMs + TICK_MS)
    /\ room' = [room EXCEPT !.rooms[roomId] = tick(@, clock', RosterJitter, RosterSpawns)]
    /\ last' = [op |-> "tick", by |-> NoId, ok |-> TRUE, from |-> "lobby"]
    /\ UNCHANGED used

InitManager ==
    /\ room = [rooms |-> EmptyMap, playerToRoom |-> EmptyMap, sockets |-> {}, seen |-> {}]
    /\ clock = T0
    /\ last = [op |-> "listen", by |-> NoId, ok |-> TRUE, from |-> "lobby"]
    /\ used = {}

NextManager ==
    \/ \E p \in Sockets : Connect(p)
    \/ \E p \in Sockets, roomId \in RoomIds, fillWithBots \in BOOLEAN :
          ManagerCreate(p, roomId, fillWithBots)
    \/ \E p \in Sockets, roomId \in RoomIds : ManagerJoin(p, roomId)
    \/ \E p \in Sockets : ManagerDisconnect(p)
    \/ \E roomId \in RoomIds : ManagerTick(roomId) /\ Within(ManagerHorizon)

SpecManager == InitManager /\ [][NextManager]_vars

\* ------------------------------------------------------------------------
\* Properties of the membership of the rooms
\* ------------------------------------------------------------------------
\* the rooms of the manager that hold an entity for the socket
RoomsOf(p) == {id \in Live : Has(Rooms[id].players, p)}
\* the connected humans of a room
ConnectedIn(id) == HumansIn(Rooms[id]) \cap room.sockets

\* C40: a player id is a member of at most one room at any time; once the
\* player has disconnected it is a member of no room; and no room without a
\* connected human keeps ticking.
C40_OneRoomPerPlayer ==
    /\ \A p \in Sockets : Cardinality(RoomsOf(p)) <= 1
    /\ \A p \in room.seen \ room.sockets : RoomsOf(p) = {}
    /\ \A id \in Live : Rooms[id].ticking => ConnectedIn(id) # {}

\* a socket that created a room and then another has disconnected; the
\* first room still holds its entity, nobody in it is connected, and it has
\* ticked since
C40_Witness ==
    /\ last.op = "tick"
    /\ \E p \in room.seen \ room.sockets, id \in Live :
          /\ Has(Rooms[id].players, p)
          /\ ConnectedIn(id) = {}
          /\ Rooms[id].ticking
          /\ Rooms[id].lastTickMs = clock
\* the sockets that have sent at most one room:create or room:join
Once == {p \in Sockets : << p, 2 >> \notin used}
\* the claim holds of the sockets that ask once, and of the rooms that
\* no other socket has ever been in
OneRoomIfAskedOnce ==
    /\ \A p \in Once : Cardinality(RoomsOf(p)) <= 1
    /\ \A p \in Once \cap (room.seen \ room.sockets) : RoomsOf(p) = {}
    /\ \A id \in Live :
          Rooms[id].ticking /\ HumansIn(Rooms[id]) \subseteq Once => ConnectedIn(id) # {}
\* playerToRoom names, for a connected socket that has asked, the room of
\* its latest successful request, and that room holds it
LatestRoomHolds ==
    \A p \in DOMAIN room.playerToRoom :
       /\ p \in room.sockets
       /\ room.playerToRoom[p] \in Live => room.playerToRoom[p] \in RoomsOf(p)
\* a socket is in two rooms
InTwoRooms == \E p \in Sockets : Cardinality(RoomsOf(p)) = 2
====
